---- MODULE Spec2Model ----
(***************************************************************************)
(* The AI service of imgable: the ai_queue protocol (app/db/queries.py),   *)
(* the worker's run loop (app/processing/worker.py), the control routes    *)
(* (app/api/routes.py), the periodic scan and the idle-unload timer       *)
(* (app/main.py), the model cache (app/models/manager.py), the person     *)
(* clusterer (get_or_create_person in app/db/queries.py) and the date      *)
(* parser of the OCR stage (app/processing/ocr.py).                        *)
(*                                                                         *)
(* Every coroutine of a worker process is a                                *)
(* task; a task's pc names the await it is suspended on, and one action is *)
(* the completion of that await together with the code that runs up to the *)
(* next await (the event loop is cooperative: code between two awaits is   *)
(* atomic).  The claim statement is modelled in two steps, the row lock    *)
(* taken by FOR UPDATE SKIP LOCKED and the commit of the UPDATE, so that   *)
(* concurrent claim statements overlap.  In the specifications with two    *)
(* worker processes each task is the run loop of one process.  A caller of *)
(* the model cache is a thread; its steps are split where it waits for the *)
(* lock and where it constructs a session while holding it.                *)
(***************************************************************************)
EXTENDS Integers, Sequences, FiniteSets, TLC

\* ------------------------------------------------------------------ bounds
NumPhotos == 2          \* photo ids that the ingester may enqueue
MaxRuns == 2            \* run() coroutines that may exist at the same time
MaxTime == 2            \* the clock runs 0..MaxTime
MaxPriority == 1        \* ai_queue.priority ranges over 0..MaxPriority
ai_max_retries == 2     \* Settings.ai_max_retries (AI_MAX_RETRIES)
MaxCrashes == 2         \* restarts of the worker process
MaxCallers == 2         \* threads that call into the ModelManager at a time
MaxBuilds == 2          \* InferenceSessions constructed per model name
MaxFaces == 3           \* rows of the faces table

\* reset_stuck_processing's timeout_minutes, in clock ticks (one tick is
\* thirty minutes)
timeout_minutes == 1

\* Settings.ai_model_ttl (1800 seconds), in clock ticks
ModelTtl == 1

Photos == 1..NumPhotos
Tasks == 1..MaxRuns
Times == 0..MaxTime
Callers == 1..MaxCallers

\* Face embeddings: vectors of norm 5 and the zero vector (integer
\* coordinates keep the cosine distance an exact fraction).
Vectors == {<<5, 0>>, <<3, 4>>, <<0, 5>>, <<0, 0>>}

\* Values of Settings.ai_cluster_threshold as fractions <<numerator,
\* denominator>>: 0.4 and the default 0.6.
Thresholds == {<<2, 5>>, <<3, 5>>}

\* Names of the MODELS table.
ModelNames == {"face_detection", "clip_visual"}

None == 0               \* Python's None for an Optional photo id
NULL == 0 - 1           \* SQL NULL in a timestamp column

VARIABLES
    queue,           \* ai_queue: photo_id -> row
    photos,          \* photos table and preview files: id -> [status, image]
    now,             \* the database server's clock, NOW()
    status,          \* AIWorker._status
    stop_event,      \* AIWorker._stop_event
    current_photo,   \* AIWorker._current_photo (its id, or None)
    pc,              \* run() coroutines: the await each is suspended on
    row,             \* run(): the claimed photo id (row / photo), or None
    errors,          \* run(): stats.errors
    photos_processed,\* run(): stats.photos_processed
    reset_count,     \* run(): reset_count
    scan_pc,         \* periodic_scan(): "sleep" or "count"
    crashes,         \* how often the worker process died and was restarted
    stop_seen,       \* history: the run loops a stop request was accepted for
    photo_faces,     \* photo_faces: photo id -> rows per detected face
    photo_tags,      \* photo_tags: photo id -> rows per assigned tag
    ai_results,      \* photos.ai_processed_at / ai_ocr_date: id -> record
    ai_ocr_update_taken_at, \* Settings.ai_ocr_update_taken_at
    models,          \* ModelManager._models: name -> entry
    lock,            \* ModelManager._lock: the caller that holds it, or None
    call,            \* the calls into the ModelManager: caller -> frame
    built,           \* history: name -> InferenceSessions constructed so far
    ai_model_ttl,    \* Settings.ai_model_ttl
    faces,           \* faces table: sequence of [id, person_id, embedding]
    persons,         \* persons table: the set of person ids
    asg,             \* get_or_create_person() calls: caller -> frame
    text,            \* _parse_date(): the recognized text, a sequence of characters
    parsed,          \* _parse_date(): its result, once it has returned
    last_activity,   \* AIWorker.last_activity: a time, or NULL before any item
    ocr_loaded,      \* ocr_processor._ocr is not None
    label_cache      \* clip_tagger holds its label-embedding cache

\* The results a photo's pipeline writes; the model cache.
stage_vars == <<photo_faces, photo_tags, ai_results, ai_ocr_update_taken_at>>
cache_vars == <<models, lock, call, built, ai_model_ttl>>

\* The person clusterer's tables and calls.
cluster_vars == <<faces, persons, asg>>

\* The state of the components beside the worker loop and the model cache.
\* The date parser's input and result.
date_vars == <<text, parsed>>

\* What the idle-unload timer reads and drops beside the model cache.
idle_vars == <<last_activity, ocr_loaded, label_cache>>

lib_vars == <<cluster_vars, date_vars, idle_vars>>

\* The tables and the worker's memory, without the clock.
worker_vars == <<queue, photos, status, stop_event, current_photo, pc, row,
                 errors, photos_processed, reset_count, scan_pc, crashes,
                 stop_seen>>

vars == <<queue, photos, now, status, stop_event, current_photo, pc, row,
          errors, photos_processed, reset_count, scan_pc, crashes, stop_seen,
          stage_vars, cache_vars, lib_vars>>

\* ------------------------------------------------------------- the tables
AbsentRow ==
    [status |-> "absent", priority |-> 0, created_at |-> NULL, attempts |-> 0,
     started_at |-> NULL, completed_at |-> NULL, last_error |-> "none"]

NewRow(p, t) ==
    [status |-> "pending", priority |-> p, created_at |-> t, attempts |-> 0,
     started_at |-> NULL, completed_at |-> NULL, last_error |-> "none"]

\* What a work item can reference: a ready photo with or without its
\* preview file, or no ready photo (the photo was deleted or is not ready:
\* "WHERE id = $1 AND status = 'ready'" finds no row in both cases).
PhotoKinds ==
    { [status |-> "ready", image |-> TRUE],
      [status |-> "ready", image |-> FALSE],
      [status |-> "gone", image |-> FALSE] }

Pending(q) == {id \in Photos : q[id].status = "pending"}

get_pending_count(q) == Cardinality(Pending(q))

\* Mutant: the claim statement does not see the row locks of others.
LockedNever(id) == FALSE

\* Rows whose claim statement holds the row lock and has not committed.
Locked(id) == \E t \in Tasks : pc[t] = "claim_locked" /\ row[t] = id

\* Mutant: ORDER BY priority DESC, created_at DESC
BeforeNewest(q, a, b) ==
    \/ q[a].priority > q[b].priority
    \/ q[a].priority = q[b].priority /\ q[a].created_at > q[b].created_at

\* ORDER BY priority DESC, created_at ASC
Before(q, a, b) ==
    \/ q[a].priority > q[b].priority
    \/ q[a].priority = q[b].priority /\ q[a].created_at < q[b].created_at

\* The rows LIMIT 1 may return: no candidate sorts before them.
First(q, cand) == {id \in cand : \A o \in cand : ~Before(q, o, id)}

claim_update(q, id, t) ==
    [q EXCEPT ![id].status = "processing", ![id].started_at = t,
              ![id].attempts = @ + 1]

mark_queue_done(q, id, t) ==
    [q EXCEPT ![id].status = "done", ![id].completed_at = t]

\* Mutant: a failed row is always returned to pending.
mark_queue_error_retry(q, id, error, max_retries) ==
    [q EXCEPT ![id].status = "pending",
              ![id].last_error = error,
              ![id].started_at = NULL]

\* Mutant: "attempts > $3" decides the error status.
mark_queue_error_gt(q, id, error, max_retries) ==
    [q EXCEPT ![id].status = IF q[id].attempts > max_retries
                               THEN "error" ELSE "pending",
              ![id].last_error = error,
              ![id].started_at = NULL]

\* Mutant: started_at is not cleared.
mark_queue_error_keep(q, id, error, max_retries) ==
    [q EXCEPT ![id].status = IF q[id].attempts >= max_retries
                               THEN "error" ELSE "pending",
              ![id].last_error = error]

mark_queue_error(q, id, error, max_retries) ==
    [q EXCEPT ![id].status = IF q[id].attempts >= max_retries
                               THEN "error" ELSE "pending",
              ![id].last_error = error,
              ![id].started_at = NULL]

\* Mutant: "started_at <= NOW() - INTERVAL"
StuckInclusive(q, t, timeout) ==
    {id \in Photos : /\ q[id].status = "processing"
                     /\ q[id].started_at <= t - timeout}

\* WHERE status = 'processing' AND started_at < NOW() - INTERVAL
Stuck(q, t, timeout) ==
    {id \in Photos : /\ q[id].status = "processing"
                     /\ q[id].started_at < t - timeout}

\* Mutant: the reset also clears the attempts counter.
reset_stuck_processing_zero(q, t, timeout) ==
    [id \in Photos |->
        IF id \in Stuck(q, t, timeout)
        THEN [q[id] EXCEPT !.status = "pending", !.started_at = NULL,
                           !.attempts = 0]
        ELSE q[id]]

reset_stuck_processing(q, t, timeout) ==
    [id \in Photos |->
        IF id \in Stuck(q, t, timeout)
        THEN [q[id] EXCEPT !.status = "pending", !.started_at = NULL]
        ELSE q[id]]

\* ------------------------------------------------------------------- Init
\* No photo has results yet.
\* A photo's row before the AI service has touched it: taken_at is what the
\* importer read from the file (NULL when the file carries no date).
NewPhoto(taken_at) ==
    [processed |-> FALSE, person_ids |-> "unset", ocr_date |-> FALSE,
     taken_at |-> taken_at]

\* Mutant: "taken_at = $n" without COALESCE.
update_photo_ai_results_overwrite(r, person_ids, ocr_date, update_taken_at) ==
    [r EXCEPT !.processed = TRUE,
              !.person_ids = person_ids,
              !.ocr_date = IF ocr_date # NULL THEN TRUE ELSE @,
              !.taken_at = IF ocr_date # NULL /\ update_taken_at
                           THEN ocr_date ELSE @]

\* update_photo_ai_results(): the UPDATE of the photo's row r.
\* ai_processed_at and ai_person_ids are always in the SET list; ai_ocr_date
\* only with a date, and "taken_at = COALESCE(taken_at, date)" only with a
\* date and update_taken_at.  ocr_date of the row tells whether ai_ocr_date
\* is set.
update_photo_ai_results(r, person_ids, ocr_date, update_taken_at) ==
    [r EXCEPT !.processed = TRUE,
              !.person_ids = person_ids,
              !.ocr_date = IF ocr_date # NULL THEN TRUE ELSE @,
              !.taken_at = IF ocr_date # NULL /\ update_taken_at /\ @ = NULL
                           THEN ocr_date ELSE @]

StageInit ==
    /\ photo_faces = [id \in Photos |-> 0]
    /\ photo_tags = [id \in Photos |-> 0]
    /\ ai_results = [id \in Photos |-> NewPhoto(NULL)]
    /\ ai_ocr_update_taken_at = TRUE

\* An entry of _models for a name that is not a key of the dict.
NoModel == [loaded |-> FALSE, last_used |-> NULL, session |-> 0]

\* A caller that is not inside a ModelManager method.
NoCall == [op |-> "none", pc |-> "idle", model_name |-> "none", now |-> NULL,
           ret |-> NULL]

\* No get_or_create_person() call is in progress.
NoAssign ==
    [pc |-> "idle", embedding |-> <<0, 0>>, threshold |-> <<0, 1>>,
     person_id |-> None, ret |-> <<None, None, FALSE>>]

\* Empty persons and faces tables.
ClusterInit ==
    /\ faces = <<>>
    /\ persons = {}
    /\ asg = [c \in Callers |-> NoAssign]

\* _parse_date() has not been called.
Unparsed == [state |-> "unset", y |-> 0, m |-> 0, d |-> 0]

DateInit ==
    /\ text = <<>>
    /\ parsed = Unparsed

\* AIWorker.__init__, OCRProcessor.__init__, CLIPTagger.__init__
IdleInit ==
    /\ last_activity = NULL
    /\ ocr_loaded = FALSE
    /\ label_cache = FALSE

LibInit == ClusterInit /\ DateInit /\ IdleInit

\* ModelManager.__init__
CacheInit ==
    /\ models = [m \in ModelNames |-> NoModel]
    /\ lock = None
    /\ call = [c \in Callers |-> NoCall]
    /\ built = [m \in ModelNames |-> 0]

Init ==
    /\ queue = [id \in Photos |-> AbsentRow]
    /\ photos = [id \in Photos |-> [status |-> "gone", image |-> FALSE]]
    /\ now = 0
    /\ status = "idle"
    /\ stop_event = FALSE
    /\ current_photo = None
    \* lifespan: ai_auto_start creates the first run() task
    /\ pc \in {[t \in Tasks |-> "none"],
               [t \in Tasks |-> IF t = 1 THEN "scheduled" ELSE "none"]}
    /\ row = [t \in Tasks |-> None]
    /\ errors = [t \in Tasks |-> 0]
    /\ photos_processed = [t \in Tasks |-> 0]
    /\ reset_count = [t \in Tasks |-> 0]
    /\ scan_pc = "sleep"
    /\ crashes = 0
    /\ stop_seen = {}
    /\ StageInit
    /\ CacheInit
    /\ LibInit
    /\ ai_model_ttl = ModelTtl

\* ------------------------------------------------------------ environment
\* The upstream ingester inserts a work item for a photo.
Insert ==
    \E id \in Photos, p \in 0..MaxPriority, k \in PhotoKinds :
        /\ queue[id].status = "absent"
        /\ queue' = [queue EXCEPT ![id] = NewRow(p, now)]
        /\ photos' = [photos EXCEPT ![id] = k]
        /\ UNCHANGED <<now, status, stop_event, current_photo, pc, row, errors,
                       photos_processed, reset_count, scan_pc, crashes,
                       stop_seen, stage_vars, cache_vars, lib_vars>>

Tick ==
    /\ now < MaxTime
    /\ now' = now + 1
    /\ UNCHANGED <<queue, photos, status, stop_event, current_photo, pc, row,
                   errors, photos_processed, reset_count, scan_pc, crashes,
                   stop_seen>>
    /\ UNCHANGED <<stage_vars, cache_vars, lib_vars>>

\* --------------------------------------------------------- the worker
\* No await separates run()'s "except Exception" block from its "finally"
\* block, so no other coroutine of the process runs in between.
Runnable == \A t \in Tasks : pc[t] # "except"

\* The run() coroutines that are past their entry check.
Looping == {t \in Tasks : pc[t] \notin {"none", "scheduled"}}

FreeTasks == {t \in Tasks : pc[t] = "none"}
FreeTask == CHOOSE t \in FreeTasks : \A o \in FreeTasks : t <= o

\* run()'s finally block; the coroutine ends and its locals are gone.
RunExit(t) ==
    /\ status' = "idle"
    /\ current_photo' = None
    /\ pc' = [pc EXCEPT ![t] = "none"]
    /\ row' = [row EXCEPT ![t] = None]
    /\ errors' = [errors EXCEPT ![t] = 0]
    /\ photos_processed' = [photos_processed EXCEPT ![t] = 0]
    /\ stop_seen' = stop_seen \ {t}

\* run(): "while not self._stop_event.is_set()" with the claim it issues,
\* or the fall through to the finally block.
LoopTop(t) ==
    IF stop_event
    THEN RunExit(t)
    ELSE /\ pc' = [pc EXCEPT ![t] = "claim"]
         /\ UNCHANGED <<status, current_photo, row, errors, photos_processed,
                        stop_seen>>

\* Mutant: run() enters its loop without reset_stuck_processing().
RunEnterNoReset(t) ==
    /\ Runnable
    /\ pc[t] = "scheduled"
    /\ IF status = "processing"
       THEN /\ pc' = [pc EXCEPT ![t] = "none"]
            /\ UNCHANGED <<status, stop_event>>
       ELSE /\ status' = "processing"
            /\ stop_event' = FALSE
            /\ pc' = [pc EXCEPT ![t] = "claim"]
    /\ UNCHANGED <<queue, photos, now, current_photo, row, errors,
                   photos_processed, reset_count, scan_pc, crashes,
                   stop_seen>>
    /\ UNCHANGED <<stage_vars, cache_vars, lib_vars>>

\* run(), from its entry to the await of reset_stuck_processing().
RunEnter(t) ==
    /\ Runnable
    /\ pc[t] = "scheduled"
    /\ IF status = "processing"
       THEN /\ pc' = [pc EXCEPT ![t] = "none"]
            /\ UNCHANGED <<status, stop_event>>
       ELSE /\ status' = "processing"
            /\ stop_event' = FALSE
            /\ pc' = [pc EXCEPT ![t] = "reset"]
    /\ UNCHANGED <<queue, photos, now, current_photo, row, errors,
                   photos_processed, reset_count, scan_pc, crashes,
                   stop_seen>>
    /\ UNCHANGED <<stage_vars, cache_vars, lib_vars>>

\* run(): reset_stuck_processing() completed; the loop is entered.
ResetStuck(t) ==
    /\ Runnable
    /\ pc[t] = "reset"
    /\ queue' = reset_stuck_processing(queue, now, timeout_minutes)
    /\ reset_count' = [reset_count EXCEPT
                          ![t] = Cardinality(Stuck(queue, now, timeout_minutes))]
    /\ LoopTop(t)
    /\ UNCHANGED <<photos, now, stop_event, scan_pc, crashes>>
    /\ UNCHANGED <<stage_vars, cache_vars, lib_vars>>

\* get_next_pending_photo(): the claim statement selects and locks its row.
ClaimSelect(t) ==
    /\ Runnable
    /\ pc[t] = "claim"
    /\ LET cand == {id \in Pending(queue) : ~Locked(id)}
       IN  IF cand = {}
           THEN /\ row' = [row EXCEPT ![t] = None]
                /\ pc' = [pc EXCEPT ![t] = "claimed"]
           ELSE \E id \in First(queue, cand) :
                   /\ row' = [row EXCEPT ![t] = id]
                   /\ pc' = [pc EXCEPT ![t] = "claim_locked"]
    /\ UNCHANGED <<queue, photos, now, status, stop_event, current_photo,
                   errors, photos_processed, reset_count, scan_pc, crashes,
                   stop_seen>>
    /\ UNCHANGED <<stage_vars, cache_vars, lib_vars>>

\* get_next_pending_photo(): the claim statement commits and the photo
\* query is issued.
ClaimCommit(t) ==
    /\ Runnable
    /\ pc[t] = "claim_locked"
    /\ queue' = claim_update(queue, row[t], now)
    /\ pc' = [pc EXCEPT ![t] = "photo"]
    /\ UNCHANGED <<photos, now, status, stop_event, current_photo, row, errors,
                   photos_processed, reset_count, scan_pc, crashes,
                   stop_seen>>
    /\ UNCHANGED <<stage_vars, cache_vars, lib_vars>>

\* get_next_pending_photo(): the photo query answers.
PhotoQuery(t) ==
    /\ Runnable
    /\ pc[t] = "photo"
    /\ IF photos[row[t]].status = "ready"
       THEN pc' = [pc EXCEPT ![t] = "claimed"]
       ELSE pc' = [pc EXCEPT ![t] = "mark_gone"]
    /\ UNCHANGED <<queue, photos, now, status, stop_event, current_photo, row,
                   errors, photos_processed, reset_count, scan_pc, crashes,
                   stop_seen>>
    /\ UNCHANGED <<stage_vars, cache_vars, lib_vars>>

\* get_next_pending_photo(): the photo is gone or not ready; the work item
\* is marked done and None is returned.
MarkGone(t) ==
    /\ Runnable
    /\ pc[t] = "mark_gone"
    /\ ~Locked(row[t])
    /\ queue' = mark_queue_done(queue, row[t], now)
    /\ row' = [row EXCEPT ![t] = None]
    /\ pc' = [pc EXCEPT ![t] = "claimed"]
    /\ UNCHANGED <<photos, now, status, stop_event, current_photo, errors,
                   photos_processed, reset_count, scan_pc, crashes,
                   stop_seen>>
    /\ UNCHANGED <<stage_vars, cache_vars, lib_vars>>

\* A storage error raised by the claim escapes to run()'s loop scope:
\* "except Exception" sets the status to error.
ClaimRaise(t) ==
    /\ Runnable
    /\ pc[t] = "claim"
    /\ status' = "error"
    /\ pc' = [pc EXCEPT ![t] = "except"]
    /\ UNCHANGED <<queue, photos, now, stop_event, current_photo, row, errors,
                   photos_processed, reset_count, scan_pc, crashes,
                   stop_seen>>
    /\ UNCHANGED <<stage_vars, cache_vars, lib_vars>>

\* Mutant: the loop-scope handler is the last word, the status stays error.
RunFinally_keeps_error(t) ==
    /\ pc[t] = "except"
    /\ pc' = [pc EXCEPT ![t] = "none"]
    /\ row' = [row EXCEPT ![t] = None]
    /\ stop_seen' = stop_seen \ {t}
    /\ UNCHANGED <<queue, photos, now, status, stop_event, current_photo,
                   errors, photos_processed, reset_count, scan_pc, crashes>>
    /\ UNCHANGED <<stage_vars, cache_vars, lib_vars>>

\* run()'s finally block after the loop-scope handler.
RunFinally(t) ==
    /\ pc[t] = "except"
    /\ RunExit(t)
    /\ UNCHANGED <<queue, photos, now, stop_event, reset_count, scan_pc,
                   crashes>>
    /\ UNCHANGED <<stage_vars, cache_vars, lib_vars>>

\* get_next_pending_photo(): the photo SELECT, or the mark_queue_done() of a
\* vanished photo, raises a storage error after the claim statement has
\* committed.  The exception reaches run()'s loop-scope handler; the row
\* stays as the claim left it.
PhotoQueryRaise(t) ==
    /\ Runnable
    /\ pc[t] \in {"photo", "mark_gone"}
    /\ status' = "error"
    /\ pc' = [pc EXCEPT ![t] = "except"]
    /\ UNCHANGED <<queue, photos, now, stop_event, current_photo, row, errors,
                   photos_processed, reset_count, scan_pc, crashes,
                   stop_seen>>
    /\ UNCHANGED <<stage_vars, cache_vars, lib_vars>>

\* run(): mark_queue_error() raises a storage error inside the per-item
\* handler.  The inner finally clears current_photo and the exception
\* reaches the loop-scope handler; the row stays as the claim left it.
MarkErrorRaise(t) ==
    /\ Runnable
    /\ pc[t] \in {"fail_load", "fail_stage"}
    /\ current_photo' = None
    /\ status' = "error"
    /\ pc' = [pc EXCEPT ![t] = "except"]
    /\ UNCHANGED <<queue, photos, now, stop_event, row, errors,
                   photos_processed, reset_count, scan_pc, crashes,
                   stop_seen>>
    /\ UNCHANGED <<stage_vars, cache_vars, lib_vars>>

\* run(): reset_stuck_processing() raises a storage error.  The await is
\* before the try statement, so neither the handler nor the finally block
\* runs: the coroutine ends and the status is left as the entry set it.
ResetStuckRaise(t) ==
    /\ Runnable
    /\ pc[t] = "reset"
    /\ pc' = [pc EXCEPT ![t] = "none"]
    /\ stop_seen' = stop_seen \ {t}
    /\ UNCHANGED <<queue, photos, now, status, stop_event, current_photo, row,
                   errors, photos_processed, reset_count, scan_pc, crashes>>
    /\ UNCHANGED <<stage_vars, cache_vars, lib_vars>>

\* run(): the claim has returned.  None: sleep and count.  A photo: it
\* becomes current and _process_photo() starts; a missing preview raises at
\* once and the handler counts the error and issues mark_queue_error().
AfterClaim(t) ==
    /\ Runnable
    /\ pc[t] = "claimed"
    /\ IF row[t] = None
       THEN /\ pc' = [pc EXCEPT ![t] = "wait"]
            /\ UNCHANGED <<current_photo, errors>>
       ELSE /\ current_photo' = row[t]
            /\ IF photos[row[t]].image
               THEN /\ pc' = [pc EXCEPT ![t] = "process"]
                    /\ UNCHANGED errors
               ELSE /\ pc' = [pc EXCEPT ![t] = "fail_load"]
                    /\ errors' = [errors EXCEPT ![t] = @ + 1]
    /\ UNCHANGED <<queue, photos, now, status, stop_event, row,
                   photos_processed, reset_count, scan_pc, crashes,
                   stop_seen>>
    /\ UNCHANGED <<stage_vars, cache_vars, lib_vars>>

\* Mutant: a None claim ends the run without the pending count.
CheckPendingBreak(t) ==
    /\ Runnable
    /\ pc[t] = "wait"
    /\ RunExit(t)
    /\ UNCHANGED <<queue, photos, now, stop_event, reset_count, scan_pc,
                   crashes>>
    /\ UNCHANGED <<stage_vars, cache_vars, lib_vars>>

\* run(): asyncio.sleep(5) and get_pending_count() have completed.
CheckPending(t) ==
    /\ Runnable
    /\ pc[t] = "wait"
    /\ IF get_pending_count(queue) = 0
       THEN RunExit(t)
       ELSE LoopTop(t)
    /\ UNCHANGED <<queue, photos, now, stop_event, reset_count, scan_pc,
                   crashes>>
    /\ UNCHANGED <<stage_vars, cache_vars, lib_vars>>

\* _process_photo(): the stages ran and update_photo_ai_results() committed;
\* mark_queue_done() is issued.
ProcessOk(t) ==
    /\ Runnable
    /\ pc[t] = "process"
    /\ photos_processed' = [photos_processed EXCEPT ![t] = @ + 1]
    /\ pc' = [pc EXCEPT ![t] = "done"]
    /\ UNCHANGED <<queue, photos, now, status, stop_event, current_photo, row,
                   errors, reset_count, scan_pc, crashes,
                   stop_seen>>
    /\ UNCHANGED <<stage_vars, cache_vars, lib_vars>>

\* _process_photo(): a stage or a write raised; the handler counts the
\* error and issues mark_queue_error().
ProcessRaise(t) ==
    /\ Runnable
    /\ pc[t] = "process"
    /\ errors' = [errors EXCEPT ![t] = @ + 1]
    /\ pc' = [pc EXCEPT ![t] = "fail_stage"]
    /\ UNCHANGED <<queue, photos, now, status, stop_event, current_photo, row,
                   photos_processed, reset_count, scan_pc, crashes,
                   stop_seen>>
    /\ UNCHANGED <<stage_vars, cache_vars, lib_vars>>

\* What the OCR stage hands to the photo update: a date, nothing, or
\* nothing because the engine raised (OCRProcessor.process catches it).
OcrOutcomes == {"date", "none", "failed"}

\* _process_photo(), stage 1: the faces are detected and assigned and their
\* photo_faces rows are inserted; the tag stage starts.
StageFaces(t) ==
    /\ Runnable
    /\ pc[t] = "process"
    /\ photo_faces' = [photo_faces EXCEPT ![row[t]] = @ + 1]
    /\ pc' = [pc EXCEPT ![t] = "tags"]
    /\ UNCHANGED <<queue, photos, now, status, stop_event, current_photo, row,
                   errors, photos_processed, reset_count, scan_pc, crashes,
                   stop_seen, photo_tags, ai_results, ai_ocr_update_taken_at,
                   cache_vars, lib_vars>>

\* _process_photo(), stage 1 raises (detector, embedder or a write): the
\* exception leaves _process_photo() and run()'s per-item handler counts
\* it and issues mark_queue_error().
StageFacesRaise(t) ==
    /\ Runnable
    /\ pc[t] = "process"
    /\ errors' = [errors EXCEPT ![t] = @ + 1]
    /\ pc' = [pc EXCEPT ![t] = "fail_stage"]
    /\ UNCHANGED <<queue, photos, now, status, stop_event, current_photo, row,
                   photos_processed, reset_count, scan_pc, crashes,
                   stop_seen, stage_vars, cache_vars, lib_vars>>

\* _process_photo(), stage 2: clip_tagger.tag() returned and the photo_tags
\* rows are inserted; the OCR stage runs and the photo update is issued.
StageTags(t) ==
    /\ Runnable
    /\ pc[t] = "tags"
    /\ photo_tags' = [photo_tags EXCEPT ![row[t]] = @ + 1]
    /\ pc' = [pc EXCEPT ![t] = "update"]
    /\ UNCHANGED <<queue, photos, now, status, stop_event, current_photo, row,
                   errors, photos_processed, reset_count, scan_pc, crashes,
                   stop_seen, photo_faces, ai_results, ai_ocr_update_taken_at,
                   cache_vars, lib_vars>>

\* _process_photo(), stage 2 raises: clip_tagger.tag() is called without a
\* handler, so the exception leaves _process_photo() as well.
StageTagsRaise(t) ==
    /\ Runnable
    /\ pc[t] = "tags"
    /\ errors' = [errors EXCEPT ![t] = @ + 1]
    /\ pc' = [pc EXCEPT ![t] = "fail_stage"]
    /\ UNCHANGED <<queue, photos, now, status, stop_event, current_photo, row,
                   photos_processed, reset_count, scan_pc, crashes,
                   stop_seen, stage_vars, cache_vars, lib_vars>>

\* Mutant: mark_queue_done() is issued without the photo update.
UpdatePhoto_skipped(t, o) ==
    /\ Runnable
    /\ pc[t] = "update"
    /\ photos_processed' = [photos_processed EXCEPT ![t] = @ + 1]
    /\ pc' = [pc EXCEPT ![t] = "done"]
    /\ UNCHANGED <<queue, photos, now, status, stop_event, current_photo, row,
                   errors, reset_count, scan_pc, crashes,
                   stop_seen, stage_vars, cache_vars, lib_vars>>

\* _process_photo(), stages 3 and 4: the OCR stage ended with outcome o (a
\* found date is time 0, a date printed in the picture) and
\* update_photo_ai_results() committed; mark_queue_done() is issued.
UpdatePhoto(t, o) ==
    /\ Runnable
    /\ pc[t] = "update"
    /\ ai_results' = [ai_results EXCEPT
                         ![row[t]] = update_photo_ai_results(
                                         @, "ids",
                                         IF o = "date" THEN 0 ELSE NULL,
                                         ai_ocr_update_taken_at)]
    /\ photos_processed' = [photos_processed EXCEPT ![t] = @ + 1]
    /\ pc' = [pc EXCEPT ![t] = "done"]
    /\ UNCHANGED <<queue, photos, now, status, stop_event, current_photo, row,
                   errors, reset_count, scan_pc, crashes,
                   stop_seen, photo_faces, photo_tags, ai_ocr_update_taken_at,
                   cache_vars, lib_vars>>

\* _process_photo(), stage 4 raises: update_photo_ai_results() failed.
UpdatePhotoRaise(t) ==
    /\ Runnable
    /\ pc[t] = "update"
    /\ errors' = [errors EXCEPT ![t] = @ + 1]
    /\ pc' = [pc EXCEPT ![t] = "fail_stage"]
    /\ UNCHANGED <<queue, photos, now, status, stop_event, current_photo, row,
                   photos_processed, reset_count, scan_pc, crashes,
                   stop_seen, stage_vars, cache_vars, lib_vars>>

\* run(): mark_queue_done() completed; finally; the inter-photo sleep.
MarkDone(t) ==
    /\ Runnable
    /\ pc[t] = "done"
    /\ ~Locked(row[t])
    /\ queue' = mark_queue_done(queue, row[t], now)
    /\ current_photo' = None
    /\ row' = [row EXCEPT ![t] = None]
    /\ pc' = [pc EXCEPT ![t] = "delay"]
    /\ UNCHANGED <<photos, now, status, stop_event, errors, photos_processed,
                   reset_count, scan_pc, crashes,
                   stop_seen>>
    /\ UNCHANGED <<stage_vars, cache_vars, lib_vars>>

\* run(): mark_queue_done() raised a storage error; the per-item handler
\* counts it and issues mark_queue_error().
MarkDoneRaise(t) ==
    /\ Runnable
    /\ pc[t] = "done"
    /\ errors' = [errors EXCEPT ![t] = @ + 1]
    /\ pc' = [pc EXCEPT ![t] = "fail_stage"]
    /\ UNCHANGED <<queue, photos, now, status, stop_event, current_photo, row,
                   photos_processed, reset_count, scan_pc, crashes,
                   stop_seen, stage_vars, cache_vars, lib_vars>>

\* Mutant: the per-item handler ends the run after mark_queue_error().
MarkErrorBreak(t) ==
    /\ Runnable
    /\ pc[t] \in {"fail_load", "fail_stage"}
    /\ ~Locked(row[t])
    /\ queue' = mark_queue_error(queue, row[t],
                                 IF pc[t] = "fail_load" THEN "load" ELSE "stage",
                                 ai_max_retries)
    /\ RunExit(t)
    /\ UNCHANGED <<photos, now, stop_event, reset_count, scan_pc, crashes>>
    /\ UNCHANGED <<stage_vars, cache_vars, lib_vars>>

\* run(): mark_queue_error() completed; finally; the inter-photo sleep.
MarkError(t) ==
    /\ Runnable
    /\ pc[t] \in {"fail_load", "fail_stage"}
    /\ ~Locked(row[t])
    /\ queue' = mark_queue_error(queue, row[t],
                                 IF pc[t] = "fail_load" THEN "load" ELSE "stage",
                                 ai_max_retries)
    /\ current_photo' = None
    /\ row' = [row EXCEPT ![t] = None]
    /\ pc' = [pc EXCEPT ![t] = "delay"]
    /\ UNCHANGED <<photos, now, status, stop_event, errors, photos_processed,
                   reset_count, scan_pc, crashes,
                   stop_seen>>
    /\ UNCHANGED <<stage_vars, cache_vars, lib_vars>>

\* run(): the inter-photo sleep is over.
DelayDone(t) ==
    /\ Runnable
    /\ pc[t] = "delay"
    /\ LoopTop(t)
    /\ UNCHANGED <<queue, photos, now, stop_event, reset_count, scan_pc,
                   crashes>>
    /\ UNCHANGED <<stage_vars, cache_vars, lib_vars>>

\* ------------------------------------------------------ the control plane
\* POST /api/v1/run: the answer, decided by worker.status alone.
start_answer == IF status = "processing" THEN "already_running" ELSE "started"

\* POST /api/v1/stop: the answer.
stop_answer == IF status # "processing" THEN "not_running" ELSE "stopping"

\* POST /api/v1/run
start_run ==
    /\ Runnable
    /\ IF start_answer = "already_running"
       THEN UNCHANGED pc
       ELSE /\ FreeTasks # {}
            /\ pc' = [pc EXCEPT ![FreeTask] = "scheduled"]
    /\ UNCHANGED <<queue, photos, now, status, stop_event, current_photo, row,
                   errors, photos_processed, reset_count, scan_pc, crashes,
                   stop_seen>>
    /\ UNCHANGED <<stage_vars, cache_vars, lib_vars>>

\* POST /api/v1/stop, with AIWorker.stop()
stop_run ==
    /\ Runnable
    /\ IF stop_answer = "not_running"
       THEN UNCHANGED <<status, stop_event, stop_seen>>
       ELSE /\ status' = "stopping"
            /\ stop_event' = TRUE
            /\ stop_seen' = Looping
    /\ UNCHANGED <<queue, photos, now, current_photo, pc, row, errors,
                   photos_processed, reset_count, scan_pc, crashes>>
    /\ UNCHANGED <<stage_vars, cache_vars, lib_vars>>

\* Mutant: the scan timer does not look at the worker's status.
ScanTick_any_status ==
    /\ Runnable
    /\ scan_pc = "sleep"
    /\ scan_pc' = "count"
    /\ UNCHANGED <<queue, photos, now, status, stop_event, current_photo, pc,
                   row, errors, photos_processed, reset_count, crashes,
                   stop_seen>>
    /\ UNCHANGED <<stage_vars, cache_vars, lib_vars>>

\* periodic_scan(): the interval elapsed and the worker is idle.
ScanTick ==
    /\ Runnable
    /\ scan_pc = "sleep"
    /\ status = "idle"
    /\ scan_pc' = "count"
    /\ UNCHANGED <<queue, photos, now, status, stop_event, current_photo, pc,
                   row, errors, photos_processed, reset_count, crashes,
                   stop_seen>>
    /\ UNCHANGED <<stage_vars, cache_vars, lib_vars>>

\* periodic_scan(): get_pending_count() answered.
ScanCount ==
    /\ Runnable
    /\ scan_pc = "count"
    /\ scan_pc' = "sleep"
    /\ IF get_pending_count(queue) > 0
       THEN /\ FreeTasks # {}
            /\ pc' = [pc EXCEPT ![FreeTask] = "scheduled"]
       ELSE UNCHANGED pc
    /\ UNCHANGED <<queue, photos, now, status, stop_event, current_photo, row,
                   errors, photos_processed, reset_count, crashes,
                   stop_seen>>
    /\ UNCHANGED <<stage_vars, cache_vars, lib_vars>>

\* The worker process dies (the rows it holds stay in processing, an
\* uncommitted claim is rolled back) and is started again: lifespan()
\* auto-starts a run on the fresh AIWorker.
Crash ==
    /\ crashes < MaxCrashes
    /\ crashes' = crashes + 1
    /\ status' = "idle"
    /\ stop_event' = FALSE
    /\ current_photo' = None
    /\ pc' = [t \in Tasks |-> IF t = 1 THEN "scheduled" ELSE "none"]
    /\ row' = [t \in Tasks |-> None]
    /\ errors' = [t \in Tasks |-> 0]
    /\ photos_processed' = [t \in Tasks |-> 0]
    /\ reset_count' = [t \in Tasks |-> 0]
    /\ scan_pc' = "sleep"
    /\ stop_seen' = {}
    /\ UNCHANGED <<queue, photos, now>>
    /\ UNCHANGED <<stage_vars, cache_vars, lib_vars>>

\* The steps of a run() coroutine.
Run(t) ==
    \/ RunEnter(t)
    \/ ResetStuck(t)
    \/ ClaimSelect(t)
    \/ ClaimCommit(t)
    \/ ClaimRaise(t)
    \/ PhotoQuery(t)
    \/ MarkGone(t)
    \/ AfterClaim(t)
    \/ CheckPending(t)
    \/ ProcessOk(t)
    \/ ProcessRaise(t)
    \/ MarkDone(t)
    \/ MarkError(t)
    \/ DelayDone(t)
    \/ RunFinally(t)

\* -------------------------------------------------------- the model cache
\* Mutant: the methods do not wait for the lock.
LockFreeAlways == TRUE

\* threading.Lock: "with self._lock" can be entered.
LockFree == lock = None

\* Mutant: "now - info.last_used >= ttl"
to_unload_inclusive(ms, n, ttl) ==
    {m \in ModelNames : ms[m].loaded /\ n - ms[m].last_used >= ttl}

\* unload_expired(): the names with now - info.last_used > ttl
to_unload(ms, n, ttl) ==
    {m \in ModelNames : ms[m].loaded /\ n - ms[m].last_used > ttl}

\* A caller enters load(model_name) and waits for the lock.
LoadCall(c, m) ==
    /\ call[c].pc = "idle"
    /\ built[m] < MaxBuilds
    /\ call' = [call EXCEPT ![c] = [op |-> "load", pc |-> "lock",
                                     model_name |-> m, now |-> NULL,
                                     ret |-> NULL]]
    /\ UNCHANGED <<worker_vars, now, stage_vars, lib_vars, models, lock, built,
                   ai_model_ttl>>

\* load(): the lock is taken.  A loaded model has its last_used refreshed
\* and its session returned (the lock is released at once); otherwise the
\* download and the construction of the session start under the lock.
LoadLocked(c) ==
    /\ call[c].pc = "lock" /\ call[c].op = "load"
    /\ LockFree
    /\ LET m == call[c].model_name
       IN  IF models[m].loaded
           THEN /\ models' = [models EXCEPT ![m].last_used = now]
                /\ call' = [call EXCEPT ![c].pc = "idle",
                                        ![c].ret = models[m].session]
                /\ UNCHANGED lock
           ELSE /\ lock' = c
                /\ call' = [call EXCEPT ![c].pc = "build"]
                /\ UNCHANGED models
    /\ UNCHANGED <<worker_vars, now, stage_vars, lib_vars, built, ai_model_ttl>>

\* load(): the session is constructed, the entry is stored with
\* loaded_at = last_used = time.time(), the lock is released and the
\* session is returned.
LoadBuild(c) ==
    /\ call[c].pc = "build"
    /\ LET m == call[c].model_name
       IN  /\ built' = [built EXCEPT ![m] = @ + 1]
           /\ models' = [models EXCEPT ![m] = [loaded |-> TRUE,
                                               last_used |-> now,
                                               session |-> built[m] + 1]]
           /\ call' = [call EXCEPT ![c].pc = "idle", ![c].ret = built[m] + 1]
    /\ lock' = IF lock = c THEN None ELSE lock
    /\ UNCHANGED <<worker_vars, now, stage_vars, lib_vars, ai_model_ttl>>

\* load(): the download or the construction raises; the with block
\* releases the lock and the exception reaches the caller.
LoadRaise(c) ==
    /\ call[c].pc = "build"
    /\ call' = [call EXCEPT ![c].pc = "idle", ![c].op = "raised"]
    /\ lock' = IF lock = c THEN None ELSE lock
    /\ UNCHANGED <<worker_vars, now, stage_vars, lib_vars, models, built, ai_model_ttl>>

\* A caller enters unload(model_name) and waits for the lock.
UnloadCall(c, m) ==
    /\ call[c].pc = "idle"
    /\ call' = [call EXCEPT ![c] = [op |-> "unload", pc |-> "lock",
                                     model_name |-> m, now |-> NULL,
                                     ret |-> NULL]]
    /\ UNCHANGED <<worker_vars, now, stage_vars, lib_vars, models, lock, built,
                   ai_model_ttl>>

\* unload(): under the lock the entry is deleted if it exists; the result
\* (1 for True, 0 for False) tells whether it did.
UnloadLocked(c) ==
    /\ call[c].pc = "lock" /\ call[c].op = "unload"
    /\ LockFree
    /\ LET m == call[c].model_name
       IN  /\ models' = [models EXCEPT ![m] = NoModel]
           /\ call' = [call EXCEPT ![c].pc = "idle",
                                   ![c].ret = IF models[m].loaded THEN 1 ELSE 0]
    /\ UNCHANGED <<worker_vars, now, stage_vars, lib_vars, lock, built, ai_model_ttl>>

\* A caller enters unload_expired(): with the TTL disabled it returns 0 at
\* once, otherwise it reads the clock and waits for the lock.
ExpireCall(c) ==
    /\ call[c].pc = "idle"
    /\ IF ai_model_ttl <= 0
       THEN call' = [call EXCEPT ![c] = [op |-> "unload_expired", pc |-> "idle",
                                         model_name |-> "none", now |-> NULL,
                                         ret |-> 0]]
       ELSE call' = [call EXCEPT ![c] = [op |-> "unload_expired", pc |-> "lock",
                                         model_name |-> "none", now |-> now,
                                         ret |-> NULL]]
    /\ UNCHANGED <<worker_vars, now, stage_vars, lib_vars, models, lock, built,
                   ai_model_ttl>>

\* unload_expired(): under the lock the expired entries are deleted and
\* counted.
ExpireLocked(c) ==
    /\ call[c].pc = "lock" /\ call[c].op = "unload_expired"
    /\ LockFree
    /\ LET gone == to_unload(models, call[c].now, ai_model_ttl)
       IN  /\ models' = [m \in ModelNames |->
                            IF m \in gone THEN NoModel ELSE models[m]]
           /\ call' = [call EXCEPT ![c].pc = "idle",
                                   ![c].ret = Cardinality(gone)]
    /\ UNCHANGED <<worker_vars, now, stage_vars, lib_vars, lock, built, ai_model_ttl>>

\* The steps of a run() coroutine past its entry check whose loop-scope
\* handler is not entered (no storage error escapes the claim).
LoopSteps(t) ==
    \/ ResetStuck(t)
    \/ ClaimSelect(t)
    \/ ClaimCommit(t)
    \/ PhotoQuery(t)
    \/ MarkGone(t)
    \/ AfterClaim(t)
    \/ CheckPending(t)
    \/ ProcessOk(t)
    \/ ProcessRaise(t)
    \/ MarkDone(t)
    \/ MarkError(t)
    \/ DelayDone(t)

\* run() from its entry.
RunLoop(t) ==
    \/ RunEnter(t)
    \/ LoopSteps(t)

\* The steps of a run() coroutine past its entry check, with
\* _process_photo() taken stage by stage, without a storage error at the
\* claim.
LoopStages(t) ==
    \/ ResetStuck(t)
    \/ ClaimSelect(t)
    \/ ClaimCommit(t)
    \/ PhotoQuery(t)
    \/ MarkGone(t)
    \/ AfterClaim(t)
    \/ CheckPending(t)
    \/ StageFaces(t)
    \/ StageFacesRaise(t)
    \/ StageTags(t)
    \/ StageTagsRaise(t)
    \/ \E o \in OcrOutcomes : UpdatePhoto(t, o)
    \/ UpdatePhotoRaise(t)
    \/ MarkDone(t)
    \/ MarkDoneRaise(t)
    \/ MarkError(t)
    \/ DelayDone(t)

\* run() from its entry, stage by stage.
RunStages(t) ==
    \/ RunEnter(t)
    \/ LoopStages(t)

\* ------------------------------------------------------ the specifications
\* The worker process with its control plane, at one instant of the clock.
Next ==
    \/ Insert
    \/ start_run
    \/ stop_run
    \/ ScanTick
    \/ ScanCount
    \/ \E t \in Tasks : Run(t)

Spec == Init /\ [][Next]_vars

\* The auto-started worker over a running clock, with process restarts.
InitClock ==
    /\ Init
    /\ pc[1] = "scheduled"

NextClock ==
    \/ Insert
    \/ Tick
    \/ Crash
    \/ \E t \in Tasks : Run(t)

SpecClock == InitClock /\ [][NextClock]_vars

\* The service over a running clock with process restarts and start
\* requests that keep arriving.  The event loop runs every coroutine that
\* can step, the clock advances, and a start request is made again and
\* again.
InitRecover ==
    /\ queue \in [Photos -> {AbsentRow} \cup {NewRow(0, 0)}]
    /\ photos \in [Photos -> PhotoKinds]
    /\ \A id \in Photos : queue[id].status = "absent" => photos[id].status = "gone"
    /\ now = 0
    /\ status = "idle"
    /\ stop_event = FALSE
    /\ current_photo = None
    /\ pc = [t \in Tasks |-> IF t = 1 THEN "scheduled" ELSE "none"]
    /\ row = [t \in Tasks |-> None]
    /\ errors = [t \in Tasks |-> 0]
    /\ photos_processed = [t \in Tasks |-> 0]
    /\ reset_count = [t \in Tasks |-> 0]
    /\ scan_pc = "sleep"
    /\ crashes = 0
    /\ stop_seen = {}
    /\ StageInit
    /\ CacheInit
    /\ LibInit
    /\ ai_model_ttl = ModelTtl

NextRecover ==
    \/ Tick
    \/ Crash
    \/ start_run
    \/ \E t \in Tasks : RunLoop(t)

FairRecover ==
    /\ WF_vars(Tick)
    /\ WF_vars(start_run)
    /\ \A t \in Tasks : WF_vars(RunLoop(t))

SpecRecover == InitRecover /\ [][NextRecover]_vars /\ FairRecover

\* The service on a storage that can fail: every statement the run loop
\* sends to the database can raise, at the run start, inside the claim, at
\* mark_queue_done() and at mark_queue_error().  Start and stop requests
\* arrive at any time; the clock stands still.
NextFault ==
    \/ start_run
    \/ stop_run
    \/ \E t \in Tasks : RunLoop(t)
    \/ \E t \in Tasks : ResetStuckRaise(t)
    \/ \E t \in Tasks : ClaimRaise(t)
    \/ \E t \in Tasks : PhotoQueryRaise(t)
    \/ \E t \in Tasks : MarkDoneRaise(t)
    \/ \E t \in Tasks : MarkErrorRaise(t)
    \/ \E t \in Tasks : RunFinally(t)

SpecFault == InitRecover /\ [][NextFault]_vars

\* One auto-started run over a finite queue that receives no inserts, with
\* _process_photo() taken stage by stage.  The event loop runs the
\* coroutine whenever it can step.
InitDrain ==
    /\ queue \in [Photos -> {AbsentRow} \cup
                    {NewRow(p, c) : p \in 0..MaxPriority, c \in Times}]
    /\ photos \in [Photos -> PhotoKinds]
    /\ \A id \in Photos : queue[id].status = "absent" => photos[id].status = "gone"
    /\ now = MaxTime
    /\ status = "idle"
    /\ stop_event = FALSE
    /\ current_photo = None
    /\ pc = [t \in Tasks |-> IF t = 1 THEN "scheduled" ELSE "none"]
    /\ row = [t \in Tasks |-> None]
    /\ errors = [t \in Tasks |-> 0]
    /\ photos_processed = [t \in Tasks |-> 0]
    /\ reset_count = [t \in Tasks |-> 0]
    /\ scan_pc = "sleep"
    /\ crashes = 0
    /\ stop_seen = {}
    /\ StageInit
    /\ CacheInit
    /\ LibInit
    /\ ai_model_ttl = ModelTtl

NextDrain == \E t \in Tasks : RunStages(t)

FairDrain == \A t \in Tasks : WF_vars(RunStages(t))

SpecDrain == InitDrain /\ [][NextDrain]_vars /\ FairDrain

\* One auto-started run, stage by stage, over photos that came with or
\* without a taken_at of their own, with AI_OCR_UPDATE_TAKEN_AT on or off.
InitUpdate ==
    /\ queue \in [Photos -> {AbsentRow, NewRow(0, 0)}]
    /\ photos \in [Photos -> PhotoKinds]
    /\ \A id \in Photos : queue[id].status = "absent" => photos[id].status = "gone"
    /\ now = MaxTime
    /\ status = "idle"
    /\ stop_event = FALSE
    /\ current_photo = None
    /\ pc = [t \in Tasks |-> IF t = 1 THEN "scheduled" ELSE "none"]
    /\ row = [t \in Tasks |-> None]
    /\ errors = [t \in Tasks |-> 0]
    /\ photos_processed = [t \in Tasks |-> 0]
    /\ reset_count = [t \in Tasks |-> 0]
    /\ scan_pc = "sleep"
    /\ crashes = 0
    /\ stop_seen = {}
    /\ photo_faces = [id \in Photos |-> 0]
    /\ photo_tags = [id \in Photos |-> 0]
    /\ ai_results \in [Photos -> {NewPhoto(NULL), NewPhoto(MaxTime)}]
    /\ ai_ocr_update_taken_at \in BOOLEAN
    /\ CacheInit
    /\ LibInit
    /\ ai_model_ttl = ModelTtl

SpecUpdate == InitUpdate /\ [][NextDrain]_vars

\* Two worker processes on one queue of pending ready items over a running
\* clock, each inside its own run() (past its own entry check), every
\* stage succeeding.  Task t is the run loop of process t; the loops share
\* nothing but the tables.
InitTwo ==
    /\ queue \in [Photos -> {NewRow(p, 0) : p \in 0..MaxPriority}]
    /\ photos = [id \in Photos |-> [status |-> "ready", image |-> TRUE]]
    /\ now = 0
    /\ status = "processing"
    /\ stop_event = FALSE
    /\ current_photo = None
    /\ pc = [t \in Tasks |-> "reset"]
    /\ row = [t \in Tasks |-> None]
    /\ errors = [t \in Tasks |-> 0]
    /\ photos_processed = [t \in Tasks |-> 0]
    /\ reset_count = [t \in Tasks |-> 0]
    /\ scan_pc = "sleep"
    /\ crashes = 0
    /\ stop_seen = {}
    /\ StageInit
    /\ CacheInit
    /\ LibInit
    /\ ai_model_ttl = ModelTtl

NextTwo ==
    \/ Tick
    \/ \E t \in Tasks :
        \/ ResetStuck(t)
        \/ ClaimSelect(t)
        \/ ClaimCommit(t)
        \/ PhotoQuery(t)
        \/ AfterClaim(t)
        \/ CheckPending(t)
        \/ StageFaces(t)
        \/ StageTags(t)
        \/ \E o \in OcrOutcomes : UpdatePhoto(t, o)
        \/ MarkDone(t)
        \/ DelayDone(t)

SpecTwo == InitTwo /\ [][NextTwo]_vars

\* Two worker processes on one queue over a running clock, each inside its
\* own run() (past its own entry check), with items that may fail.  Task
\* t is the run loop of process t; the loops share nothing but the tables.
InitShared ==
    /\ queue \in [Photos -> {AbsentRow} \cup {NewRow(p, 0) : p \in 0..MaxPriority}]
    /\ photos \in [Photos -> PhotoKinds]
    /\ \A id \in Photos : queue[id].status = "absent" => photos[id].status = "gone"
    /\ now = 0
    /\ status = "processing"
    /\ stop_event = FALSE
    /\ current_photo = None
    /\ pc = [t \in Tasks |-> "reset"]
    /\ row = [t \in Tasks |-> None]
    /\ errors = [t \in Tasks |-> 0]
    /\ photos_processed = [t \in Tasks |-> 0]
    /\ reset_count = [t \in Tasks |-> 0]
    /\ scan_pc = "sleep"
    /\ crashes = 0
    /\ stop_seen = {}
    /\ StageInit
    /\ CacheInit
    /\ LibInit
    /\ ai_model_ttl = ModelTtl

NextShared ==
    \/ Tick
    \/ \E t \in Tasks : LoopSteps(t)

SpecShared == InitShared /\ [][NextShared]_vars

\* ------------------------------------------------------ the person clusterer
\* np.dot and np.linalg.norm on the integer vectors of Vectors.
Dot(a, b) == a[1] * b[1] + a[2] * b[2]

Norm(a) == CHOOSE n \in 0..Dot(a, a) : n * n = Dot(a, a)

\* float("inf") as a fraction
Infinity == <<1, 0>>

\* p < q for fractions with denominators >= 0
Less(p, q) == p[1] * q[2] < q[1] * p[2]

\* cosine_distance(a, b): 1.0 when a norm is 0, else 1 - dot / (|a| |b|)
cosine_distance(a, b) ==
    IF Norm(a) = 0 \/ Norm(b) = 0
    THEN <<1, 1>>
    ELSE <<Norm(a) * Norm(b) - Dot(a, b), Norm(a) * Norm(b)>>

\* Mutant: the first row under 0.6 wins and ends the search.
RECURSIVE Closest_first(_, _, _, _)
Closest_first(rows, i, embedding, best) ==
    IF i > Len(rows) THEN best
    ELSE LET distance == cosine_distance(embedding, rows[i].embedding)
         IN  IF best.face_id = None /\ Less(distance, best.distance)
             THEN Closest_first(rows, i + 1, embedding,
                                [face_id |-> rows[i].id,
                                 person_id |-> rows[i].person_id,
                                 distance |-> distance])
             ELSE Closest_first(rows, i + 1, embedding, best)

\* get_or_create_person(): the loop over the rows, from row i on, that
\* keeps the row with the smallest distance seen so far (strict <).
RECURSIVE Closest(_, _, _, _)
Closest(rows, i, embedding, best) ==
    IF i > Len(rows) THEN best
    ELSE LET distance == cosine_distance(embedding, rows[i].embedding)
         IN  IF Less(distance, best.distance)
             THEN Closest(rows, i + 1, embedding,
                          [face_id |-> rows[i].id,
                           person_id |-> rows[i].person_id,
                           distance |-> distance])
             ELSE Closest(rows, i + 1, embedding, best)

\* Mutant: "best_distance <= threshold"
IsMatch_inclusive(best, threshold) ==
    best.face_id # None /\ ~Less(threshold, best.distance)

\* "if best_face_id and best_distance < threshold"
IsMatch(best, threshold) ==
    best.face_id # None /\ Less(best.distance, threshold)

\* A caller enters get_or_create_person(embedding, threshold) and issues
\* the SELECT over the faces table.
AssignCall(c, v, th) ==
    /\ asg[c].pc = "idle"
    /\ Len(faces) + Cardinality({d \in Callers : asg[d].pc # "idle"}) < MaxFaces
    /\ asg' = [asg EXCEPT ![c] = [pc |-> "scan", embedding |-> v,
                                   threshold |-> th, person_id |-> None,
                                   ret |-> <<None, None, FALSE>>]]
    /\ UNCHANGED <<worker_vars, now, stage_vars, cache_vars, date_vars, idle_vars, faces, persons>>

\* The SELECT returns the rows; the closest face is found; a match is
\* returned, otherwise the COUNT over persons is issued.
AssignScan(c) ==
    /\ asg[c].pc = "scan"
    /\ LET best == Closest(faces, 1, asg[c].embedding,
                           [face_id |-> None, person_id |-> None,
                            distance |-> Infinity])
       IN  IF IsMatch(best, asg[c].threshold)
           THEN asg' = [asg EXCEPT ![c].pc = "idle",
                                   ![c].ret = <<best.person_id, best.face_id,
                                                FALSE>>]
           ELSE asg' = [asg EXCEPT ![c].pc = "count"]
    /\ UNCHANGED <<worker_vars, now, stage_vars, cache_vars, date_vars, idle_vars, faces, persons>>

\* The COUNT returns (it only feeds the name "Unknown n"); the INSERT
\* into persons is issued with a fresh person id.
AssignCount(c) ==
    /\ asg[c].pc = "count"
    /\ asg' = [asg EXCEPT ![c].pc = "person"]
    /\ UNCHANGED <<worker_vars, now, stage_vars, cache_vars, date_vars, idle_vars, faces, persons>>

\* The INSERT into persons commits; the INSERT into faces is issued.
AssignPerson(c) ==
    /\ asg[c].pc = "person"
    /\ persons' = persons \cup {Cardinality(persons) + 1}
    /\ asg' = [asg EXCEPT ![c].pc = "face",
                           ![c].person_id = Cardinality(persons) + 1]
    /\ UNCHANGED <<worker_vars, now, stage_vars, cache_vars, date_vars, idle_vars, faces>>

\* The INSERT into faces commits; (person_id, face_id, True) is returned.
AssignFace(c) ==
    /\ asg[c].pc = "face"
    /\ faces' = Append(faces, [id |-> Len(faces) + 1,
                               person_id |-> asg[c].person_id,
                               embedding |-> asg[c].embedding])
    /\ asg' = [asg EXCEPT ![c].pc = "idle",
                           ![c].ret = <<asg[c].person_id, Len(faces) + 1, TRUE>>]
    /\ UNCHANGED <<worker_vars, now, stage_vars, cache_vars, date_vars, idle_vars, persons>>

\* The INSERT into faces raises a storage error: the exception leaves
\* get_or_create_person() after the INSERT into persons has committed (the
\* two statements are not in a transaction).
AssignFaceRaise(c) ==
    /\ asg[c].pc = "face"
    /\ asg' = [asg EXCEPT ![c].pc = "idle"]
    /\ UNCHANGED <<worker_vars, now, stage_vars, cache_vars, date_vars, idle_vars, faces, persons>>

\* The clusterer under concurrent callers (the run loops of the worker
\* processes that share the database), from empty tables.
InitAssign ==
    /\ queue = [id \in Photos |-> AbsentRow]
    /\ photos = [id \in Photos |-> [status |-> "gone", image |-> FALSE]]
    /\ now = 0
    /\ status = "idle"
    /\ stop_event = FALSE
    /\ current_photo = None
    /\ pc = [t \in Tasks |-> "none"]
    /\ row = [t \in Tasks |-> None]
    /\ errors = [t \in Tasks |-> 0]
    /\ photos_processed = [t \in Tasks |-> 0]
    /\ reset_count = [t \in Tasks |-> 0]
    /\ scan_pc = "sleep"
    /\ crashes = 0
    /\ stop_seen = {}
    /\ StageInit
    /\ CacheInit
    /\ ai_model_ttl = ModelTtl
    /\ ClusterInit
    /\ IdleInit
    /\ DateInit

NextAssign ==
    \E c \in Callers :
        \/ \E v \in Vectors, th \in Thresholds : AssignCall(c, v, th)
        \/ AssignScan(c)
        \/ AssignCount(c)
        \/ AssignPerson(c)
        \/ AssignFace(c)

SpecAssign == InitAssign /\ [][NextAssign]_vars

\* One face of one photo across the attempts of its queue item: the first
\* attempt calls the clusterer with the face's embedding, and every retry
\* of the item calls it again with the same embedding and threshold.  An
\* attempt can fail at the INSERT into faces, or later in the pipeline
\* after the call has returned.
NextRetry ==
    \/ \E v \in Vectors, th \in Thresholds :
          asg[1] = NoAssign /\ AssignCall(1, v, th)
    \/ asg[1] # NoAssign /\ AssignCall(1, asg[1].embedding, asg[1].threshold)
    \/ AssignScan(1)
    \/ AssignCount(1)
    \/ AssignPerson(1)
    \/ AssignFace(1)
    \/ Cardinality(persons) < MaxFaces /\ AssignFaceRaise(1)

SpecRetry == InitAssign /\ [][NextRetry]_vars

\* ------------------------------------------------------------ date parsing
\* Characters are strings of length one and a text is a sequence of them.
Digits == <<"0", "1", "2", "3", "4", "5", "6", "7", "8", "9">>

Digit == {Digits[i] : i \in DOMAIN Digits}

\* int() of one digit
DigitValue(c) == (CHOOSE i \in DOMAIN Digits : Digits[i] = c) - 1

\* The letters that occur in the texts and in MONTH_NAMES.
Letter ==
    {"a", "b", "c", "d", "e", "f", "g", "h", "i", "j", "l", "m", "n", "o",
     "p", "r", "s", "t", "u", "v", "x", "y", "O"}

WordChar == Digit \cup Letter \cup {"_"}

\* DATE_PATTERNS, in order.  A pattern is a sequence of elements: min to max
\* characters of a class (max -1: unbounded), greedy, captured as group
\* number group (0: not captured), or the word boundary \b.  The classes
\* are [./\-], [./\-\'\s], [./\-\s], \s, ['"] and [,\s].  The optional
\* time of day that may follow a date, (?:\s+\d{1,2}:\d{2}...)?, is left
\* out: it is optional, captures nothing and comes last, so it changes
\* neither whether nor where a pattern matches nor its groups.
DATE_PATTERNS ==
    LET SepIso == {".", "/", "-"}
        SepDmy == {".", "/", "-", "'", " "}
        SepYmd2 == {".", "/", "-", " "}
        Blank == {" "}
        Quote == {"'", "\""}
        CommaBlank == {",", " "}
        Cls(set, min, max, group) ==
            [kind |-> "class", set |-> set, min |-> min, max |-> max,
             group |-> group]
        Boundary == [kind |-> "b", set |-> {}, min |-> 0, max |-> 0, group |-> 0]
    IN
        << [format |-> "ymd4",
            re |-> <<Cls(Digit, 4, 4, 1), Cls(SepIso, 1, 1, 0), Cls(Digit, 1, 2, 2),
                     Cls(SepIso, 1, 1, 0), Cls(Digit, 1, 2, 3)>>],
           [format |-> "dmy4",
            re |-> <<Cls(Digit, 1, 2, 1), Cls(SepDmy, 1, 1, 0), Cls(Digit, 1, 2, 2),
                     Cls(SepDmy, 1, 1, 0), Cls(Digit, 4, 4, 3)>>],
           [format |-> "mdy4",
            re |-> <<Cls(Digit, 1, 2, 1), Cls(SepIso, 1, 1, 0), Cls(Digit, 1, 2, 2),
                     Cls(SepIso, 1, 1, 0), Cls(Digit, 4, 4, 3)>>],
           [format |-> "ymd2",
            re |-> <<Cls(Quote, 0, 1, 0), Cls(Digit, 2, 2, 1), Cls(SepYmd2, 1, 1, 0),
                     Cls(Digit, 1, 2, 2), Cls(SepYmd2, 1, 1, 0),
                     Cls(Digit, 1, 2, 3)>>],
           [format |-> "dmy2",
            re |-> <<Cls(Digit, 1, 2, 1), Cls(SepDmy, 1, 1, 0), Cls(Digit, 1, 2, 2),
                     Cls(SepDmy, 1, 1, 0), Cls(Digit, 2, 2, 3)>>],
           [format |-> "ymd4_compact",
            re |-> <<Boundary, Cls(Digit, 4, 4, 1), Cls(Digit, 2, 2, 2),
                     Cls(Digit, 2, 2, 3), Boundary>>],
           [format |-> "dmy4_compact",
            re |-> <<Boundary, Cls(Digit, 2, 2, 1), Cls(Digit, 2, 2, 2),
                     Cls(Digit, 4, 4, 3), Boundary>>],
           [format |-> "dmy2_compact",
            re |-> <<Boundary, Cls(Digit, 2, 2, 1), Cls(Digit, 2, 2, 2),
                     Cls(Digit, 2, 2, 3), Boundary>>],
           [format |-> "dmy_name_full",
            re |-> <<Cls(Digit, 1, 2, 1), Cls(Blank, 1, -1, 0),
                     Cls(Letter, 1, -1, 2), Cls(CommaBlank, 1, -1, 0),
                     Cls(Quote, 0, 1, 0), Cls(Digit, 2, 4, 3)>>],
           [format |-> "mdy_name_full",
            re |-> <<Cls(Letter, 1, -1, 1), Cls(Blank, 1, -1, 0),
                     Cls(Digit, 1, 2, 2), Cls(CommaBlank, 1, -1, 0),
                     Cls(Quote, 0, 1, 0), Cls(Digit, 2, 4, 3)>>],
           [format |-> "dmy_name",
            re |-> <<Cls(Digit, 1, 2, 1), Cls(Blank, 1, -1, 0),
                     Cls(Letter, 3, 3, 2), Cls(CommaBlank, 1, -1, 0),
                     Cls(Quote, 0, 1, 0), Cls(Digit, 2, 4, 3)>>],
           [format |-> "mdy_name",
            re |-> <<Cls(Letter, 3, 3, 1), Cls(Blank, 1, -1, 0),
                     Cls(Digit, 1, 2, 2), Cls(CommaBlank, 1, -1, 0),
                     Cls(Quote, 0, 1, 0), Cls(Digit, 2, 4, 3)>>] >>

\* MONTH_NAMES: the English short and full names (the Cyrillic names lie
\* outside the alphabet of the texts).
MONTH_NAMES ==
    {<<<<"j", "a", "n">>, 1>>,
     <<<<"f", "e", "b">>, 2>>,
     <<<<"m", "a", "r">>, 3>>,
     <<<<"a", "p", "r">>, 4>>,
     <<<<"m", "a", "y">>, 5>>,
     <<<<"j", "u", "n">>, 6>>,
     <<<<"j", "u", "l">>, 7>>,
     <<<<"a", "u", "g">>, 8>>,
     <<<<"s", "e", "p">>, 9>>,
     <<<<"o", "c", "t">>, 10>>,
     <<<<"n", "o", "v">>, 11>>,
     <<<<"d", "e", "c">>, 12>>,
     <<<<"j", "a", "n", "u", "a", "r", "y">>, 1>>,
     <<<<"f", "e", "b", "r", "u", "a", "r", "y">>, 2>>,
     <<<<"m", "a", "r", "c", "h">>, 3>>,
     <<<<"a", "p", "r", "i", "l">>, 4>>,
     <<<<"j", "u", "n", "e">>, 6>>,
     <<<<"j", "u", "l", "y">>, 7>>,
     <<<<"a", "u", "g", "u", "s", "t">>, 8>>,
     <<<<"s", "e", "p", "t", "e", "m", "b", "e", "r">>, 9>>,
     <<<<"o", "c", "t", "o", "b", "e", "r">>, 10>>,
     <<<<"n", "o", "v", "e", "m", "b", "e", "r">>, 11>>,
     <<<<"d", "e", "c", "e", "m", "b", "e", "r">>, 12>>}

\* n characters of txt from pos on exist and lie in the class.
AllIn(txt, pos, n, set) ==
    /\ pos + n - 1 <= Len(txt)
    /\ \A i \in pos..(pos + n - 1) : txt[i] \in set

IsWord(txt, i) == i >= 1 /\ i <= Len(txt) /\ txt[i] \in WordChar

\* re.search: the match of the elements from k on at position pos, as
\* <<groups>>, or <<>> when there is none.  A quantified element takes the
\* largest number of characters with which the rest still matches.
RECURSIVE MatchFrom(_, _, _, _, _)
RECURSIVE TryCount(_, _, _, _, _, _)
MatchFrom(re, k, txt, pos, groups) ==
    IF k > Len(re) THEN <<groups>>
    ELSE IF re[k].kind = "b"
         THEN IF IsWord(txt, pos - 1) # IsWord(txt, pos)
              THEN MatchFrom(re, k + 1, txt, pos, groups)
              ELSE <<>>
         ELSE TryCount(re, k, txt, pos, groups,
                       IF re[k].max = -1 THEN Len(txt) ELSE re[k].max)

TryCount(re, k, txt, pos, groups, n) ==
    IF n < re[k].min THEN <<>>
    ELSE IF AllIn(txt, pos, n, re[k].set)
         THEN LET g == IF re[k].group = 0 THEN groups
                       ELSE [groups EXCEPT ![re[k].group] =
                                               SubSeq(txt, pos, pos + n - 1)]
                  r == MatchFrom(re, k + 1, txt, pos + n, g)
              IN  IF r # <<>> THEN r
                  ELSE TryCount(re, k, txt, pos, groups, n - 1)
         ELSE TryCount(re, k, txt, pos, groups, n - 1)

\* re.search(pattern, text): the leftmost match, from position start on.
RECURSIVE Search(_, _, _)
Search(re, txt, start) ==
    IF start > Len(txt) + 1 THEN <<>>
    ELSE LET r == MatchFrom(re, 1, txt, start, <<<<>>, <<>>, <<>>>>)
         IN  IF r # <<>> THEN r ELSE Search(re, txt, start + 1)

\* int() of a string of digits
RECURSIVE ToInt(_)
ToInt(ds) ==
    IF ds = <<>> THEN 0
    ELSE 10 * ToInt(SubSeq(ds, 1, Len(ds) - 1)) + DigitValue(ds[Len(ds)])

\* str.lower() on the letters of the alphabet
Lower(txt) == [i \in DOMAIN txt |-> IF txt[i] = "O" THEN "o" ELSE txt[i]]

\* MONTH_NAMES.get(month_str) or MONTH_NAMES.get(month_str[:3]); 0 for None
MonthOf(month_str) ==
    LET full == {e \in MONTH_NAMES : e[1] = month_str}
        first3 == SubSeq(month_str, 1,
                         IF Len(month_str) < 3 THEN Len(month_str) ELSE 3)
        short == {e \in MONTH_NAMES : e[1] = first3}
    IN  IF full # {} THEN (CHOOSE e \in full : TRUE)[2]
        ELSE IF short # {} THEN (CHOOSE e \in short : TRUE)[2]
        ELSE 0

\* _convert_year
convert_year(y) ==
    IF y < 100 THEN (IF y < 30 THEN 2000 + y ELSE 1900 + y) ELSE y

\* datetime.date(y, m, d) does not raise ValueError.
DaysInMonth(y, m) ==
    IF m \in {4, 6, 9, 11} THEN 30
    ELSE IF m = 2
         THEN (IF y % 4 = 0 /\ (y % 100 # 0 \/ y % 400 = 0) THEN 29 ELSE 28)
         ELSE 31

IsDate(y, m, d) ==
    /\ y >= 1 /\ y <= 9999
    /\ m >= 1 /\ m <= 12
    /\ d >= 1 /\ d <= DaysInMonth(y, m)

NoDate == [state |-> "none", y |-> 0, m |-> 0, d |-> 0]

\* _try_parse_date(): "Validate and create date"
Validate(d, m, y) ==
    IF d # 0 /\ m # 0 /\ y # 0
       /\ 1 <= d /\ d <= 31 /\ 1 <= m /\ m <= 12 /\ 1900 <= y /\ y <= 2100
       /\ IsDate(y, m, d)
    THEN [state |-> "date", y |-> y, m |-> m, d |-> d]
    ELSE NoDate

\* _try_parse_date(): the branch of one format on the groups of its match
Interpret(format, g) ==
    LET a == g[1]
        b == g[2]
        c == g[3]
    IN  CASE format \in {"ymd4", "ymd4_compact"} ->
                 Validate(ToInt(c), ToInt(b), ToInt(a))
          [] format \in {"dmy4", "dmy4_compact"} ->
                 Validate(ToInt(a), ToInt(b), ToInt(c))
          [] format = "mdy4" ->
                 Validate(ToInt(b), ToInt(a), ToInt(c))
          [] format = "ymd2" ->
                 Validate(ToInt(c), ToInt(b), convert_year(ToInt(a)))
          [] format \in {"dmy2", "dmy2_compact"} ->
                 Validate(ToInt(a), ToInt(b), convert_year(ToInt(c)))
          [] format \in {"dmy_name", "dmy_name_full"} ->
                 IF MonthOf(Lower(b)) = 0 THEN NoDate
                 ELSE Validate(ToInt(a), MonthOf(Lower(b)),
                               convert_year(ToInt(c)))
          [] format \in {"mdy_name", "mdy_name_full"} ->
                 IF MonthOf(Lower(a)) = 0 THEN NoDate
                 ELSE Validate(ToInt(b), MonthOf(Lower(a)),
                               convert_year(ToInt(c)))

\* Mutant: the 2-digit-year patterns are tried before the 4-digit-year
\* patterns.
PatternOrder_2digit_first == <<4, 5, 1, 2, 3, 6, 7, 8, 9, 10, 11, 12>>

\* The order in which _try_parse_date() walks DATE_PATTERNS.
PatternOrder == <<1, 2, 3, 4, 5, 6, 7, 8, 9, 10, 11, 12>>

\* _try_parse_date(): the loop over the patterns from the k-th on; the
\* first pattern that matches and validates decides.
RECURSIVE TryFrom(_, _)
TryFrom(txt, k) ==
    IF k > Len(PatternOrder) THEN NoDate
    ELSE LET p == DATE_PATTERNS[PatternOrder[k]]
             r == Search(p.re, txt, 1)
         IN  IF r = <<>> THEN TryFrom(txt, k + 1)
             ELSE LET res == Interpret(p.format, r[1])
                  IN  IF res.state = "date" THEN res ELSE TryFrom(txt, k + 1)

\* str.strip()
RECURSIVE Strip(_)
Strip(txt) ==
    IF txt # <<>> /\ txt[1] = " " THEN Strip(Tail(txt))
    ELSE IF txt # <<>> /\ txt[Len(txt)] = " "
         THEN Strip(SubSeq(txt, 1, Len(txt) - 1))
         ELSE txt

try_parse_date(txt) == TryFrom(Strip(txt), 1)

\* _fix_ocr_errors: O and o to 0, l, I and | to 1, S and s to 5, B to 8,
\* Z and z to 2
fix_ocr_errors(txt) ==
    [i \in DOMAIN txt |->
        CASE txt[i] \in {"O", "o"} -> "0"
          [] txt[i] \in {"l", "I", "|"} -> "1"
          [] txt[i] \in {"S", "s"} -> "5"
          [] txt[i] = "B" -> "8"
          [] txt[i] \in {"Z", "z"} -> "2"
          [] OTHER -> txt[i]]

\* _parse_date(): the text as it is, then with the OCR errors fixed
parse_date(txt) ==
    IF try_parse_date(txt).state = "date" THEN try_parse_date(txt)
    ELSE try_parse_date(fix_ocr_errors(txt))

Separators == {".", "/", "-"}

\* The texts handed to _parse_date(): a<s>b<s>c alone (w = 0) or inside
\* other text, with fields of one, two and four digits that are valid and
\* invalid days, months and years (short-short-short, long-short-short and
\* short-short-long), texts without a date and a misread date ("O1" is 01
\* as the OCR engine may read it).
TextInputs ==
    LET Short ==
            {<<"1">>, <<"8">>, <<"0", "1">>, <<"0", "2">>, <<"0", "5">>,
             <<"0", "8">>, <<"1", "2">>, <<"1", "3">>, <<"1", "5">>,
             <<"2", "0">>, <<"3", "0">>, <<"3", "1">>, <<"3", "2">>,
             <<"9", "5">>}
        Long == {<<"1", "9", "9", "5">>, <<"2", "0", "2", "0">>}
        Written(a, s, b, c, w) ==
            IF w = 0 THEN a \o <<s>> \o b \o <<s>> \o c
            ELSE <<"x", " ">> \o a \o <<s>> \o b \o <<s>> \o c \o <<" ", "x">>
    IN  {Written(a, s, b, c, w) :
            a \in Short, b \in Short, c \in {f \in Short : Len(f) = 2},
            s \in Separators, w \in {0, 1}}
        \cup {Written(a, s, b, c, w) :
            a \in Long, b \in Short, c \in Short, s \in Separators, w \in {0, 1}}
        \cup {Written(a, s, b, c, w) :
            a \in Short, b \in Short, c \in Long, s \in Separators, w \in {0, 1}}
        \cup {<<>>, <<"x", " ", "x">>,
              <<"O", "1", "/", "1", "2", "/", "2", "O", "2", "O">>}

\* _parse_date() is called on the text and returns.
ParseDate ==
    /\ parsed.state = "unset"
    /\ parsed' = parse_date(text)
    /\ UNCHANGED <<worker_vars, now, stage_vars, cache_vars, cluster_vars, idle_vars, text>>

InitParse ==
    /\ queue = [id \in Photos |-> AbsentRow]
    /\ photos = [id \in Photos |-> [status |-> "gone", image |-> FALSE]]
    /\ now = 0
    /\ status = "idle"
    /\ stop_event = FALSE
    /\ current_photo = None
    /\ pc = [t \in Tasks |-> "none"]
    /\ row = [t \in Tasks |-> None]
    /\ errors = [t \in Tasks |-> 0]
    /\ photos_processed = [t \in Tasks |-> 0]
    /\ reset_count = [t \in Tasks |-> 0]
    /\ scan_pc = "sleep"
    /\ crashes = 0
    /\ stop_seen = {}
    /\ StageInit
    /\ CacheInit
    /\ ai_model_ttl = ModelTtl
    /\ ClusterInit
    /\ IdleInit
    /\ text \in TextInputs
    /\ parsed = Unparsed

NextParse == ParseDate

SpecParse == InitParse /\ [][NextParse]_vars

\* A date <<y, m, d>> written the way a pattern of DATE_PATTERNS describes:
\* days, months and 2-digit years with two digits, the year with four
\* digits or as its last two, the separator s between the fields of the
\* numeric formats, the month's English name in lower case in the name
\* formats ("15 august 1995", "august 15, 1995", "15 aug 1995",
\* "aug 15, 1995").
format_date(date, format, s) ==
    LET Two(n) == <<Digits[(n \div 10) + 1], Digits[(n % 10) + 1]>>
        y4 == Two(date[1] \div 100) \o Two(date[1] % 100)
        y2 == Two(date[1] % 100)
        mm == Two(date[2])
        dd == Two(date[3])
        names == {e \in MONTH_NAMES : e[2] = date[2]}
        short == (CHOOSE e \in names : Len(e[1]) = 3)[1]
        full == (CHOOSE e \in names : \A o \in names : Len(o[1]) <= Len(e[1]))[1]
    IN  CASE format = "ymd4" -> y4 \o <<s>> \o mm \o <<s>> \o dd
          [] format = "dmy4" -> dd \o <<s>> \o mm \o <<s>> \o y4
          [] format = "mdy4" -> mm \o <<s>> \o dd \o <<s>> \o y4
          [] format = "ymd2" -> y2 \o <<s>> \o mm \o <<s>> \o dd
          [] format = "dmy2" -> dd \o <<s>> \o mm \o <<s>> \o y2
          [] format = "ymd4_compact" -> y4 \o mm \o dd
          [] format = "dmy4_compact" -> dd \o mm \o y4
          [] format = "dmy2_compact" -> dd \o mm \o y2
          [] format = "dmy_name_full" -> dd \o <<" ">> \o full \o <<" ">> \o y4
          [] format = "mdy_name_full" ->
                 full \o <<" ">> \o dd \o <<",", " ">> \o y4
          [] format = "dmy_name" -> dd \o <<" ">> \o short \o <<" ">> \o y4
          [] format = "mdy_name" ->
                 short \o <<" ">> \o dd \o <<",", " ">> \o y4

\* The dates that are written and the formats they are written in: real
\* dates of three years inside the window of the 2-digit years, every
\* format of DATE_PATTERNS, the numeric ones with each separator.
RoundInputs ==
    LET Dates == {date \in {1995, 2005, 2020} \X {1, 2, 8, 12}
                                \X {1, 12, 15, 29, 31} :
                     IsDate(date[1], date[2], date[3])}
        Numeric == {"ymd4", "dmy4", "mdy4", "ymd2", "dmy2"}
        Other == {DATE_PATTERNS[i].format : i \in DOMAIN DATE_PATTERNS}
                     \ Numeric
    IN  (Dates \X Numeric \X Separators) \cup (Dates \X Other \X {"."})

\* _parse_date() is called on a date written in a supported format.
InitRound ==
    /\ queue = [id \in Photos |-> AbsentRow]
    /\ photos = [id \in Photos |-> [status |-> "gone", image |-> FALSE]]
    /\ now = 0
    /\ status = "idle"
    /\ stop_event = FALSE
    /\ current_photo = None
    /\ pc = [t \in Tasks |-> "none"]
    /\ row = [t \in Tasks |-> None]
    /\ errors = [t \in Tasks |-> 0]
    /\ photos_processed = [t \in Tasks |-> 0]
    /\ reset_count = [t \in Tasks |-> 0]
    /\ scan_pc = "sleep"
    /\ crashes = 0
    /\ stop_seen = {}
    /\ StageInit
    /\ CacheInit
    /\ ai_model_ttl = ModelTtl
    /\ ClusterInit
    /\ IdleInit
    /\ text \in {format_date(i[1], i[2], i[3]) : i \in RoundInputs}
    /\ parsed = Unparsed

SpecRound == InitRound /\ [][NextParse]_vars

\* The ModelManager under concurrent callers of load, unload and
\* unload_expired, over a running clock, with the TTL enabled or disabled.
InitCache ==
    /\ queue = [id \in Photos |-> AbsentRow]
    /\ photos = [id \in Photos |-> [status |-> "gone", image |-> FALSE]]
    /\ now = 0
    /\ status = "idle"
    /\ stop_event = FALSE
    /\ current_photo = None
    /\ pc = [t \in Tasks |-> "none"]
    /\ row = [t \in Tasks |-> None]
    /\ errors = [t \in Tasks |-> 0]
    /\ photos_processed = [t \in Tasks |-> 0]
    /\ reset_count = [t \in Tasks |-> 0]
    /\ scan_pc = "sleep"
    /\ crashes = 0
    /\ stop_seen = {}
    /\ StageInit
    /\ CacheInit
    /\ LibInit
    /\ ai_model_ttl \in {0, ModelTtl}

NextCache ==
    \/ Tick
    \/ \E c \in Callers :
        \/ \E m \in ModelNames : LoadCall(c, m)
        \/ LoadLocked(c)
        \/ LoadBuild(c)
        \/ LoadRaise(c)
        \/ \E m \in ModelNames : UnloadCall(c, m)
        \/ UnloadLocked(c)
        \/ ExpireCall(c)
        \/ ExpireLocked(c)

SpecCache == InitCache /\ [][NextCache]_vars

\* The ModelManager as the service drives it: the processing stages call
\* load, the clock advances, and nothing in the service calls
\* unload_expired.  Time passes and a call that can proceed does.
NextEvict ==
    \/ Tick
    \/ \E c \in Callers :
        \/ \E m \in ModelNames : LoadCall(c, m)
        \/ LoadLocked(c)
        \/ LoadBuild(c)
        \/ LoadRaise(c)

FairEvict ==
    /\ WF_vars(Tick)
    /\ \A c \in Callers : WF_vars(LoadLocked(c) \/ LoadBuild(c))

SpecEvict == InitCache /\ [][NextEvict]_vars /\ FairEvict

\* ---------------------------------------------------- the idle-unload timer
\* Settings.ai_idle_unload_minutes (AI_IDLE_UNLOAD_MINUTES), in ticks of
\* the clock.
ai_idle_unload_minutes == 1

\* The thread of the event loop: run() and the timers are coroutines of it.
WorkerThread == 1

\* get_info()["loaded"]: the names of the entries of _models.
get_info_loaded(ms) == {m \in ModelNames : ms[m].loaded}

\* get_info()["memory_used_mb"]: the sum of the entries' sizes (every
\* model file has a positive size, here one unit each).
get_info_memory(ms) == Cardinality(get_info_loaded(ms))

\* Mutant: only the OCR engine counts as something to unload.
Resident_ocr_only == ocr_loaded

\* periodic_idle_unload(): "models_info['loaded'] or ocr_processor._ocr is
\* not None", the negation of its "nothing to unload" test.
Resident == get_info_loaded(models) # {} \/ ocr_loaded

\* Mutant: the timer does not look at the worker's status.
IdleUnloadDue_any_status ==
    /\ Resident
    /\ last_activity # NULL
    /\ now - last_activity >= ai_idle_unload_minutes

\* periodic_idle_unload(): the three tests that precede the unload.
IdleUnloadDue ==
    /\ status = "idle"
    /\ Resident
    /\ last_activity # NULL
    /\ now - last_activity >= ai_idle_unload_minutes

\* ModelManager.unload_all(): every entry of _models is deleted.
unload_all(ms) == [m \in ModelNames |-> NoModel]

\* OCRProcessor.unload(): the engine is released (_ocr is None again).
ocr_unload == FALSE

\* CLIPTagger.clear_cache(): the label embeddings are dropped.
clear_cache == FALSE

\* AIWorker.last_activity after a work item completed at time t.
note_activity(t) == t

\* periodic_idle_unload(): one round of the loop after its sleep.  No await
\* separates the tests from the unload; get_info() and unload_all() take
\* the ModelManager's lock.  A round whose tests fail changes nothing.
periodic_idle_unload ==
    /\ ai_idle_unload_minutes > 0
    /\ IdleUnloadDue
    /\ LockFree
    /\ models' = unload_all(models)
    /\ ocr_loaded' = ocr_unload
    /\ label_cache' = clear_cache
    /\ UNCHANGED <<worker_vars, now, stage_vars, cluster_vars, date_vars,
                   lock, call, built, ai_model_ttl, last_activity>>

\* run(): the entry check passes; the status becomes processing and the
\* stop event is cleared.
IdleRunEnter ==
    /\ status # "processing"
    /\ status' = "processing"
    /\ stop_event' = FALSE
    /\ UNCHANGED <<queue, photos, current_photo, pc, row, errors,
                   photos_processed, reset_count, scan_pc, crashes, stop_seen,
                   now, stage_vars, cache_vars, lib_vars>>

\* _process_photo(): a stage asks the ModelManager for a model.
IdleLoad(m) ==
    /\ status \in {"processing", "stopping"}
    /\ LoadCall(WorkerThread, m)

\* _process_photo(): the OCR stage creates the engine (_get_ocr) and the
\* tagger fills its label-embedding cache (_init_text_embeddings), each
\* once; a work item is then completed and the time is noted.
IdleItemDone ==
    /\ status \in {"processing", "stopping"}
    /\ call[WorkerThread].pc = "idle"
    /\ last_activity' = note_activity(now)
    /\ \E o \in {ocr_loaded, TRUE} : ocr_loaded' = o
    /\ \E l \in {label_cache, TRUE} : label_cache' = l
    /\ UNCHANGED <<worker_vars, now, stage_vars, cache_vars, cluster_vars,
                   date_vars>>

\* stop(): accepted while the status is processing.
IdleStop ==
    /\ status = "processing"
    /\ status' = "stopping"
    /\ stop_event' = TRUE
    /\ UNCHANGED <<queue, photos, current_photo, pc, row, errors,
                   photos_processed, reset_count, scan_pc, crashes, stop_seen,
                   now, stage_vars, cache_vars, lib_vars>>

\* run(): the loop ends (stop event, drained queue or an escaped error) and
\* the finally block sets the status to idle.
IdleRunExit ==
    /\ status \in {"processing", "stopping"}
    /\ call[WorkerThread].pc = "idle"
    /\ status' = "idle"
    /\ UNCHANGED <<queue, photos, stop_event, current_photo, pc, row, errors,
                   photos_processed, reset_count, scan_pc, crashes, stop_seen,
                   now, stage_vars, cache_vars, lib_vars>>

\* The service with the idle-unload timer enabled: runs come and go, their
\* items load models, the OCR engine and the label cache, the clock
\* advances and the timer looks at the worker once per tick or less.  The
\* model files are in place: a session that is constructed does not raise.
InitIdle ==
    /\ queue = [id \in Photos |-> AbsentRow]
    /\ photos = [id \in Photos |-> [status |-> "gone", image |-> FALSE]]
    /\ now = 0
    /\ status = "idle"
    /\ stop_event = FALSE
    /\ current_photo = None
    /\ pc = [t \in Tasks |-> "none"]
    /\ row = [t \in Tasks |-> None]
    /\ errors = [t \in Tasks |-> 0]
    /\ photos_processed = [t \in Tasks |-> 0]
    /\ reset_count = [t \in Tasks |-> 0]
    /\ scan_pc = "sleep"
    /\ crashes = 0
    /\ stop_seen = {}
    /\ StageInit
    /\ CacheInit
    /\ LibInit
    /\ ai_model_ttl = ModelTtl

NextIdle ==
    \/ Tick
    \/ IdleRunEnter
    \/ \E m \in ModelNames : IdleLoad(m)
    \/ LoadLocked(WorkerThread)
    \/ LoadBuild(WorkerThread)
    \/ IdleItemDone
    \/ IdleStop
    \/ IdleRunExit
    \/ periodic_idle_unload

\* The clock advances, the timer's task is scheduled, and a call into the
\* ModelManager that can proceed does.
FairIdle ==
    /\ WF_vars(Tick)
    /\ WF_vars(periodic_idle_unload)
    /\ WF_vars(LoadLocked(WorkerThread) \/ LoadBuild(WorkerThread))

SpecIdle == InitIdle /\ [][NextIdle]_vars /\ FairIdle

\* The service driven by its scan timer alone (ai_scan_interval > 0): no
\* run is auto-started or requested over the API, the ingester inserts
\* work items, and every run is one the timer created.  The timer's task
\* and the run() tasks are scheduled whenever they can take a step.
InitScan ==
    /\ queue = [id \in Photos |-> AbsentRow]
    /\ photos = [id \in Photos |-> [status |-> "gone", image |-> FALSE]]
    /\ now = 0
    /\ status = "idle"
    /\ stop_event = FALSE
    /\ current_photo = None
    /\ pc = [t \in Tasks |-> "none"]
    /\ row = [t \in Tasks |-> None]
    /\ errors = [t \in Tasks |-> 0]
    /\ photos_processed = [t \in Tasks |-> 0]
    /\ reset_count = [t \in Tasks |-> 0]
    /\ scan_pc = "sleep"
    /\ crashes = 0
    /\ stop_seen = {}
    /\ StageInit
    /\ CacheInit
    /\ LibInit
    /\ ai_model_ttl = ModelTtl

NextScan ==
    \/ Insert
    \/ ScanTick
    \/ ScanCount
    \/ \E t \in Tasks : RunLoop(t)

FairScan ==
    /\ WF_vars(ScanTick)
    /\ WF_vars(ScanCount)
    /\ \A t \in Tasks : WF_vars(RunLoop(t))

SpecScan == InitScan /\ [][NextScan]_vars /\ FairScan

\* One wave of concurrent claimers: every claimer calls
\* get_next_pending_photo() once against a queue of pending rows.
InitWave ==
    /\ queue \in [Photos -> {AbsentRow} \cup
                    {NewRow(p, c) : p \in 0..MaxPriority, c \in Times}]
    /\ photos \in [Photos -> {k \in PhotoKinds : k.image = (k.status = "ready")}]
    /\ \A id \in Photos : queue[id].status = "absent" => photos[id].status = "gone"
    /\ now = MaxTime
    /\ status = "processing"
    /\ stop_event = FALSE
    /\ current_photo = None
    /\ pc \in [Tasks -> {"none", "claim"}]
    /\ row = [t \in Tasks |-> None]
    /\ errors = [t \in Tasks |-> 0]
    /\ photos_processed = [t \in Tasks |-> 0]
    /\ reset_count = [t \in Tasks |-> 0]
    /\ scan_pc = "sleep"
    /\ crashes = 0
    /\ stop_seen = {}
    /\ StageInit
    /\ CacheInit
    /\ LibInit
    /\ ai_model_ttl = ModelTtl

NextWave ==
    \E t \in Tasks :
        \/ ClaimSelect(t)
        \/ ClaimCommit(t)
        \/ PhotoQuery(t)
        \/ MarkGone(t)

SpecWave == InitWave /\ [][NextWave]_vars

\* ================================================================ claims
Min(a, b) == IF a < b THEN a ELSE b

\* The claimers of a wave, the work items of its queue, the claimers whose
\* call returned a photo.
Claimers == {t \in Tasks : pc[t] # "none"}
Items == {id \in Photos : queue[id].status # "absent"}
Returned == {t \in Claimers : pc[t] = "claimed" /\ row[t] # None}
WaveOver == \A t \in Claimers : pc[t] = "claimed"
AllReady == \A id \in Items : photos[id].status = "ready"

\* C1: N concurrent claimers against M pending rows with ready photos: no
\* two claimers ever hold the same photo id, and when all calls have
\* returned exactly min(N, M) of them returned a photo.
C1_ClaimUniqueness ==
    /\ \A t1, t2 \in Tasks : (t1 # t2 /\ row[t1] # None) => row[t1] # row[t2]
    /\ (WaveOver /\ AllReady) =>
          Cardinality(Returned) = Min(Cardinality(Claimers), Cardinality(Items))

\* C1 witness: a full wave is over, every claimer of MaxRuns got a photo of
\* a queue that had more than one ready item.
C1_Witness ==
    /\ WaveOver /\ AllReady
    /\ Cardinality(Claimers) = MaxRuns
    /\ Cardinality(Items) >= MaxRuns
    /\ Cardinality(Returned) = MaxRuns

\* An item whose processing always raises: its photo is ready and its
\* preview file is missing, so _load_image() fails on every attempt.
AlwaysRaises(id) == photos[id].status = "ready" /\ ~photos[id].image

\* C2: an always-raising item is claimed exactly ai_max_retries times (its
\* attempts count the claims) before it is in error, every failure but the
\* last returns it to pending, after the first failure it is pending with
\* attempts = 1 and last_error set, and once in error it stays there.
C2_RetryBound ==
    /\ [](\A id \in Photos : AlwaysRaises(id) =>
            LET r == queue[id] IN
            /\ r.status \in {"pending", "processing", "error"}
            /\ r.status = "error" =>
                  r.attempts = ai_max_retries /\ r.last_error = "load"
            /\ r.status = "pending" =>
                  /\ r.attempts < ai_max_retries
                  /\ (r.last_error = "none") <=> (r.attempts = 0)
            /\ r.status = "processing" =>
                  /\ r.attempts \in 1..ai_max_retries
                  /\ (r.last_error = "none") <=> (r.attempts = 1)
            /\ (r.attempts = 1 /\ r.last_error # "none") =>
                  r.status = "pending" /\ r.started_at = NULL)
    /\ [][\A id \in Photos : AlwaysRaises(id) =>
            /\ queue[id].status = "error" => queue'[id].status = "error"
            /\ queue'[id].attempts # queue[id].attempts =>
                  /\ queue[id].status = "pending"
                  /\ queue'[id].status = "processing"
                  /\ queue'[id].attempts = queue[id].attempts + 1]_vars

\* C2 witness: an always-raising item rests in error.
C2_Witness ==
    \E id \in Photos : AlwaysRaises(id) /\ queue[id].status = "error"

\* The status transitions the worker's state machine lists.
ListedSteps ==
    { <<"idle", "processing">>, <<"processing", "stopping">>,
      <<"stopping", "idle">>, <<"processing", "idle">>,
      <<"processing", "error">>, <<"stopping", "error">>,
      <<"error", "idle">> }

\* C3: the worker status is one of idle, processing, stopping, error, is
\* idle at first and changes only by the listed transitions; processing is
\* entered from idle only.
C3_StatusMachine ==
    /\ status = "idle"
    /\ [](status \in {"idle", "processing", "stopping", "error"})
    /\ [][status' # status => <<status, status'>> \in ListedSteps]_vars

\* The run loops that hold a photo their claim returned and have not yet
\* completed or failed it.
InFlight ==
    {t \in Tasks : /\ row[t] # None
                   /\ pc[t] \in {"claimed", "process", "done", "fail_load",
                                 "fail_stage"}}

\* C4: at most one photo is in flight in the worker process.
C4_OneInFlight == Cardinality(InFlight) <= 1

\* C5: a start request made while a run loop is active is answered
\* already_running and schedules no run() coroutine.
C5_StartRejected ==
    [][(start_run /\ Looping # {}) =>
          (start_answer = "already_running" /\ pc' = pc)]_vars

\* C6: once a stop request was accepted for a run loop, the loop does not
\* drop its photo without completing or failing it, issues no further
\* claim, and leaves the worker idle when it ends.
C6_StopIsFinal ==
    [][\A t \in stop_seen :
          /\ (row[t] # None /\ row'[t] = None /\ pc[t] # "mark_gone") =>
                queue'[row[t]].status \in {"done", "pending", "error"}
          /\ ~(pc[t] # "claim" /\ pc'[t] = "claim")
          /\ t \notin stop_seen' => status' = "idle"]_vars

\* C7: mark_queue_error sets error when attempts >= max_retries and pending
\* with started_at null otherwise, stores the error text in both cases,
\* and changes neither attempts nor any other row.
C7_FailContract ==
    [][\A t \in Tasks : MarkError(t) =>
          LET id == row[t]
              old == queue[id]
              new == queue'[id]
          IN  /\ new.status = IF old.attempts >= ai_max_retries
                               THEN "error" ELSE "pending"
              /\ new.status = "pending" => new.started_at = NULL
              /\ new.last_error = IF pc[t] = "fail_load" THEN "load" ELSE "stage"
              /\ new.attempts = old.attempts
              /\ new.priority = old.priority
              /\ new.created_at = old.created_at
              /\ \A o \in Photos \ {id} : queue'[o] = queue[o]]_vars

\* C7 witness: a failed item was returned to pending, another one parked in
\* error.
C7_Witness ==
    \E a, b \in Photos :
        /\ queue[a].status = "pending" /\ queue[a].last_error # "none"
        /\ queue[a].attempts >= 1 /\ queue[a].started_at = NULL
        /\ queue[b].status = "error" /\ queue[b].attempts >= ai_max_retries

\* C8: the claim statement takes, among the pending rows no concurrent
\* claim has locked, one with the highest priority and, at that priority,
\* the oldest created_at (None when there is no such row), and its commit
\* sets the row to processing.
C8_ClaimOrder ==
    [][\A t \in Tasks :
          /\ ClaimSelect(t) =>
                LET free == {id \in Photos : queue[id].status = "pending"
                                /\ ~\E o \in Tasks : pc[o] = "claim_locked"
                                                     /\ row[o] = id}
                IN  IF free = {}
                    THEN row'[t] = None /\ pc'[t] = "claimed"
                    ELSE /\ row'[t] \in free
                         /\ \A o \in free :
                               /\ queue[o].priority <= queue[row'[t]].priority
                               /\ queue[o].priority = queue[row'[t]].priority =>
                                     queue[o].created_at >= queue[row'[t]].created_at
          /\ ClaimCommit(t) =>
                /\ queue'[row[t]].status = "processing"
                /\ queue'[row[t]].started_at = now
                /\ queue'[row[t]].attempts = queue[row[t]].attempts + 1]_vars

\* C8 witness: two claims overlap; the second skipped the locked row and
\* holds the next one in (priority DESC, created_at ASC) order.
C8_Witness ==
    \E t, o \in Tasks :
        /\ pc[t] = "claim_locked" /\ pc[o] = "claim_locked"
        /\ queue[row[t]].priority = queue[row[o]].priority
        /\ queue[row[t]].created_at < queue[row[o]].created_at

\* C9: a claimed row whose photo is gone or not ready is marked done and
\* None is returned; the error counter stays, and the loop ends the run
\* only on a zero pending count (or a stop request), claiming again
\* otherwise.
C9_GoneIsSkipped ==
    [][\A t \in Tasks :
          /\ MarkGone(t) =>
                /\ queue'[row[t]].status = "done"
                /\ row'[t] = None /\ pc'[t] = "claimed"
                /\ errors' = errors
          /\ (AfterClaim(t) /\ row[t] = None) =>
                errors' = errors /\ pc'[t] = "wait"
          /\ (CheckPending(t) /\ ~stop_event) =>
                /\ errors'[t] = errors[t] \/ pc'[t] = "none"
                /\ (pc'[t] = "claim") <=> (Pending(queue) # {})
                /\ (pc'[t] = "none") <=> (Pending(queue) = {})]_vars

\* C9 witness: in one run a gone photo's item was marked done without an
\* error or a processed photo being counted, and the loop has claimed the
\* next item.
C9_Witness ==
    \E t \in Tasks, a, b \in Photos :
        /\ photos[a].status = "gone" /\ queue[a].status = "done"
        /\ queue[a].attempts = 1
        /\ pc[t] = "claimed" /\ row[t] = b /\ queue[b].attempts = 1
        /\ errors[t] = 0 /\ photos_processed[t] = 0

\* C10: reset_stuck_processing moves exactly the processing rows with
\* started_at < now - timeout to pending with started_at null, returns
\* their number, and changes nothing else.
C10_ResetStuck ==
    [][\A t \in Tasks : ResetStuck(t) =>
          LET old(id) == queue[id].status = "processing"
                         /\ queue[id].started_at + timeout_minutes < now
          IN  /\ \A id \in Photos :
                    IF old(id)
                    THEN /\ queue'[id].status = "pending"
                         /\ queue'[id].started_at = NULL
                         /\ queue'[id].attempts = queue[id].attempts
                         /\ queue'[id].last_error = queue[id].last_error
                         /\ queue'[id].priority = queue[id].priority
                         /\ queue'[id].created_at = queue[id].created_at
                         /\ queue'[id].completed_at = queue[id].completed_at
                    ELSE queue'[id] = queue[id]
              /\ reset_count'[t] = Cardinality({id \in Photos : old(id)})]_vars

\* C10 witness: a run start has reset a stuck row while a row claimed
\* within the timeout stayed in processing.
C10_Witness ==
    \E t \in Tasks, a, b \in Photos :
        /\ reset_count[t] = 1
        /\ queue[a].status = "pending" /\ queue[a].attempts >= 1
        /\ queue[a].last_error = "none"
        /\ queue[b].status = "processing" /\ pc[t] = "claim"

\* A row in processing that no run loop of the process holds: its worker
\* died mid-item.
Orphan(id) ==
    /\ queue[id].status = "processing"
    /\ \A t \in Tasks : row[t] # id

\* C11: a run calls reset_stuck_processing before its first claim, the
\* call returns every orphaned row older than the timeout to pending, and
\* while the clock advances and runs keep starting an orphaned row whose
\* timeout can elapse is eventually held by a run loop again.
C11_Recovery ==
    /\ [][\A t \in Tasks :
             /\ pc[t] = "scheduled" => pc'[t] \in {"scheduled", "none", "reset"}
             /\ (pc'[t] = "claim" /\ pc[t] # "claim") =>
                   pc[t] \in {"reset", "wait", "delay"}
             /\ ResetStuck(t) =>
                   \A id \in Photos :
                      (Orphan(id) /\ queue[id].started_at + timeout_minutes < now)
                          => queue'[id].status = "pending"]_vars
    /\ \A id \in Photos :
          (Orphan(id) /\ queue[id].started_at + timeout_minutes < MaxTime)
             ~> (\E t \in Tasks : row[t] = id /\ queue[id].status = "processing")

\* C11 witness: after a restart a run has reset the only row of the queue,
\* orphaned by the dead worker, and holds it again.
C11_Witness ==
    \E t \in Tasks, id \in Photos :
        /\ crashes >= 1
        /\ Items = {id}
        /\ reset_count[t] = 1
        /\ row[t] = id /\ pc[t] = "claimed"
        /\ queue[id].status = "processing" /\ queue[id].attempts = 2

\* C12: two workers on one queue of pending ready items never hold the same
\* photo id, no photo gets its photo_faces or photo_tags rows twice, and
\* when both run loops have ended every item is done.
C12_TwoWorkers ==
    /\ \A t1, t2 \in Tasks : (t1 # t2 /\ row[t1] # None) => row[t1] # row[t2]
    /\ \A id \in Photos : photo_faces[id] <= 1 /\ photo_tags[id] <= 1
    /\ (\A t \in Tasks : pc[t] = "none") =>
          \A id \in Photos : /\ queue[id].status = "done"
                              /\ queue[id].attempts = 1
                              /\ photo_faces[id] = 1 /\ photo_tags[id] = 1
                              /\ ai_results[id].processed

\* The steps in which an exception leaves the processing of the claimed
\* item: the preview cannot be loaded, a stage or the photo update raises,
\* or mark_queue_done raises.
ItemRaises(t) ==
    \/ AfterClaim(t) /\ row[t] # None /\ ~photos[row[t]].image
    \/ StageFacesRaise(t)
    \/ StageTagsRaise(t)
    \/ UpdatePhotoRaise(t)
    \/ MarkDoneRaise(t)

\* C13: an exception raised while an item is processed is caught in the
\* loop: the run's error counter grows by one and the item is kept, then
\* mark_queue_error returns the item to pending or parks it in error with
\* the error text stored, the worker status is unchanged (processing), and
\* after the delay the loop issues the next claim.
C13_ItemErrorCaught ==
    [][\A t \in Tasks :
          /\ ItemRaises(t) =>
                /\ errors'[t] = errors[t] + 1
                /\ row'[t] = row[t] /\ queue' = queue
                /\ pc'[t] \in {"fail_load", "fail_stage"}
                /\ status = "processing" /\ status' = "processing"
          /\ pc[t] \in {"fail_load", "fail_stage"} =>
                \/ pc'[t] = pc[t] /\ queue'[row[t]] = queue[row[t]]
                \/ /\ pc'[t] = "delay"
                   /\ queue'[row[t]].status =
                         IF queue[row[t]].attempts >= ai_max_retries
                         THEN "error" ELSE "pending"
                   /\ queue'[row[t]].last_error # "none"
                   /\ errors'[t] = errors[t]
                   /\ status' = "processing"
          /\ (pc[t] = "delay" /\ pc'[t] # "delay") =>
                pc'[t] = "claim" /\ status' = "processing"]_vars

\* C13 witness: a run that counted an error for an item whose stage raised
\* holds the next item.
C13_Witness ==
    \E t \in Tasks, a, b \in Photos :
        /\ errors[t] = 1 /\ status = "processing"
        /\ queue[a].last_error = "stage" /\ queue[a].status = "pending"
        /\ pc[t] = "process" /\ row[t] = b /\ a # b

\* C14: a failure of the tag stage is confined to it (no tags are written,
\* no error is counted, the photo update is next and the item is not
\* failed), and a failure of the OCR stage is confined likewise (the photo
\* update commits without a date and the item goes on to done).
C14_StageConfined ==
    [][\A t \in Tasks :
          /\ StageTagsRaise(t) =>
                /\ photo_tags' = photo_tags
                /\ errors' = errors
                /\ pc'[t] = "update"
          /\ UpdatePhoto(t, "failed") =>
                /\ ai_results'[row[t]].processed
                /\ ai_results'[row[t]].ocr_date = ai_results[row[t]].ocr_date
                /\ ai_results'[row[t]].taken_at = ai_results[row[t]].taken_at
                /\ errors' = errors
                /\ pc'[t] = "done"]_vars

\* C15: a run over a finite queue without inserts ends: the worker is idle
\* again for good, the run leaves its loop only on a zero pending count
\* after a claim that returned None, no item is claimed more than
\* ai_max_retries times, and after the run every item is done or error.
C15_RunTerminates ==
    /\ <>[](status = "idle" /\ \A t \in Tasks : pc[t] = "none")
    /\ [][\A t \in Tasks : (pc[t] # "none" /\ pc'[t] = "none") =>
             /\ pc[t] = "wait" /\ row[t] = None
             /\ get_pending_count(queue) = 0
             /\ status' = "idle"]_vars
    /\ [](\A id \in Photos : queue[id].attempts <= ai_max_retries)
    /\ []((\A t \in Tasks : pc[t] = "none") =>
             \A id \in Items : queue[id].status \in {"done", "error"})

\* C15 witness: the run has ended over a queue with one item done and one
\* item parked in error after ai_max_retries claims.
C15_Witness ==
    \E a, b \in Photos :
        /\ \A t \in Tasks : pc[t] = "none"
        /\ status = "idle"
        /\ queue[a].status = "done" /\ ai_results[a].processed
        /\ queue[b].status = "error" /\ queue[b].attempts = ai_max_retries

\* C16: a row in error stays in error under every step of every worker
\* (claim, complete, fail, reset_stuck).
C16_ErrorIsFinal ==
    [][\A id \in Photos :
          queue[id].status = "error" => queue'[id].status = "error"]_vars

\* C17: the attempts counter of a row never decreases; it changes only in
\* the commit of a claim of that row, which adds exactly one; complete,
\* fail and reset_stuck leave it alone.
C17_AttemptsMonotonic ==
    [][\A id \in Photos :
          /\ queue'[id].attempts >= queue[id].attempts
          /\ queue'[id].attempts # queue[id].attempts =>
                /\ queue'[id].attempts = queue[id].attempts + 1
                /\ \E t \in Tasks : pc[t] = "claim_locked" /\ row[t] = id
                                      /\ pc'[t] = "photo"
          /\ (\E t \in Tasks : pc[t] = "claim_locked" /\ row[t] = id
                                 /\ pc'[t] = "photo") =>
                queue'[id].attempts = queue[id].attempts + 1]_vars

\* C17 witness: a row that was claimed, returned to pending by
\* reset_stuck and claimed again carries two attempts and no error text.
C17_Witness ==
    \E t \in Tasks, id \in Photos :
        /\ reset_count[t] >= 1
        /\ queue[id].status = "processing"
        /\ queue[id].attempts = 2 /\ queue[id].last_error = "none"

\* A load call of caller c returns a session in this step.
LoadReturns(c) ==
    /\ call[c].op = "load" /\ call[c].pc # "idle"
    /\ call'[c].op = "load" /\ call'[c].pc = "idle"

\* C18: concurrent load calls on a model that is not resident construct its
\* session once and all receive that session: a session is constructed only
\* for a model that is not resident, and becomes the resident one; a
\* resident session is replaced only after the model was unloaded; every
\* load that returns hands out the resident session.  load, unload and
\* unload_expired never interleave: at most one caller is inside the lock,
\* and while a caller constructs a session under the lock no other call
\* changes the cache.
C18_LoadOnce ==
    /\ [][\A m \in ModelNames :
             /\ built'[m] # built[m]
                  => /\ ~models[m].loaded
                     /\ built'[m] = built[m] + 1
                     /\ models'[m].loaded /\ models'[m].session = built'[m]
             /\ (models[m].loaded /\ models'[m].loaded)
                  => models'[m].session = models[m].session]_vars
    /\ [][\A c \in Callers :
             LoadReturns(c)
                 => /\ models'[call[c].model_name].loaded
                    /\ call'[c].ret = models'[call[c].model_name].session]_vars
    /\ [](Cardinality({c \in Callers : call[c].pc = "build"}) <= 1)
    /\ [](\A c \in Callers : call[c].pc = "build" => lock = c)
    /\ [][\A c \in Callers :
             (call[c].pc = "build" /\ call'[c].pc = "build")
                 => models' = models /\ built' = built /\ lock' = lock]_vars

\* Two callers loaded the same model while it was not resident (the second
\* was waiting for the lock while the first constructed the session, a
\* clock tick at most before), and both hold the one session constructed.
C18_Witness ==
    \E m \in ModelNames :
        /\ built[m] = 1
        /\ models[m].loaded /\ models[m].session = 1
        /\ \A c \in Callers :
              /\ call[c].op = "load" /\ call[c].model_name = m
              /\ call[c].pc = "idle" /\ call[c].ret = 1
        /\ \A n \in ModelNames \ {m} : built[n] = 0

\* An unload_expired call of caller c returns in this step.
ExpireReturns(c) ==
    /\ call'[c].op = "unload_expired" /\ call'[c].pc = "idle"
    /\ \/ call[c].op = "unload_expired" /\ call[c].pc = "lock"
       \/ call[c].pc = "idle" /\ call'[c] # call[c]

\* C19: unload_expired removes exactly the resident models whose last_used
\* lies more than the TTL before the clock value the call read, and returns
\* their number; with a TTL of 0 or less it changes nothing and returns 0.
\* load sets last_used to the current time, on a hit too, so a model loaded
\* within the last TTL seconds is not removed by unload_expired.
C19_UnloadExpired ==
    /\ [][\A c \in Callers :
             ExpireReturns(c)
                 => IF ai_model_ttl <= 0
                    THEN models' = models /\ call'[c].ret = 0
                    ELSE LET old == {m \in ModelNames :
                                        /\ models[m].loaded
                                        /\ call[c].now - models[m].last_used
                                               > ai_model_ttl}
                         IN  /\ \A m \in ModelNames :
                                   models'[m] = IF m \in old THEN NoModel
                                                ELSE models[m]
                             /\ call'[c].ret = Cardinality(old)
                             /\ \A m \in ModelNames :
                                   (/\ models[m].loaded
                                    /\ now - models[m].last_used <= ai_model_ttl)
                                       => models'[m].loaded]_vars
    /\ [][\A c \in Callers :
             LoadReturns(c)
                 => models'[call[c].model_name].last_used = now]_vars
    /\ [][\A c \in Callers :
             (call'[c].op = "unload_expired" /\ call'[c].pc = "lock"
                 /\ call[c].pc = "idle")
                 => call'[c].now = now /\ ai_model_ttl > 0]_vars

\* unload_expired has just removed one expired model and kept the other,
\* which is resident and was used within the TTL.
C19_Witness ==
    \E c \in Callers, m, k \in ModelNames :
        /\ call[c].op = "unload_expired" /\ call[c].pc = "idle"
        /\ call[c].ret = 1 /\ call[c].now = now
        /\ ~models[m].loaded /\ built[m] = 1
        /\ models[k].loaded /\ now - models[k].last_used <= ai_model_ttl
        /\ models[k].last_used > 0

\* Model m is resident and has not been used for longer than the TTL.
Expired(m) ==
    /\ ai_model_ttl > 0
    /\ models[m].loaded
    /\ now - models[m].last_used > ai_model_ttl

\* C20: models are unloaded automatically after the TTL: a resident model
\* that has not been used for longer than the TTL (TTL > 0) is eventually
\* evicted by the service itself, unless it is used again.
C20_TtlEviction ==
    \A m \in ModelNames : Expired(m) ~> ~Expired(m)

\* Caller c's last get_or_create_person() call has returned a new person.
MintedNew(c) == asg[c].pc = "idle" /\ asg[c].ret[3]

\* C24: get_or_create_person() calls are serialized over the scan and the
\* inserts: two calls whose embeddings are closer to one another than the
\* threshold of either never both create a new person.
C24_AssignSerialized ==
    \A c1, c2 \in Callers :
        (c1 # c2 /\ MintedNew(c1) /\ MintedNew(c2))
            => LET d == cosine_distance(asg[c1].embedding, asg[c2].embedding)
               IN  ~(Less(d, asg[c1].threshold) /\ Less(d, asg[c2].threshold))

\* The rows of the faces table at the smallest cosine distance from v.
Nearest(v) ==
    {i \in DOMAIN faces :
        \A j \in DOMAIN faces :
            ~Less(cosine_distance(v, faces[j].embedding),
                  cosine_distance(v, faces[i].embedding))}

\* Caller c's SELECT returns in this step and the scan decides.
ScanDecides(c) == asg[c].pc = "scan" /\ asg'[c].pc # "scan"

\* C25: a vector whose cosine distance to the nearest gallery member is
\* exactly the threshold (or more) is treated as a new person, one whose
\* distance is smaller than the threshold as the existing person: the
\* scan returns is_new = False exactly when the smallest distance is < t,
\* and a call that did not match inserts a person and a face and returns
\* them with is_new = True.
C25_ThresholdStrict ==
    /\ [][\A c \in Callers :
             (ScanDecides(c) /\ faces # <<>>)
                 => \E i \in Nearest(asg[c].embedding) :
                       LET d == cosine_distance(asg[c].embedding,
                                                faces[i].embedding)
                           t == asg[c].threshold
                       IN  IF d[1] * t[2] < t[1] * d[2]
                           THEN /\ asg'[c].pc = "idle"
                                /\ asg'[c].ret[3] = FALSE
                                /\ asg'[c].ret[1] \in persons
                           ELSE asg'[c].pc = "count"]_vars
    /\ [][\A c \in Callers :
             /\ (asg[c].pc = "count" /\ asg'[c].pc # "count")
                  => asg'[c].pc = "person"
             /\ (asg[c].pc = "person" /\ asg'[c].pc # "person")
                  => /\ asg'[c].pc = "face"
                     /\ asg'[c].person_id \in persons' \ persons
             /\ (asg[c].pc = "face" /\ asg'[c].pc # "face")
                  => /\ asg'[c].pc = "idle"
                     /\ asg'[c].ret = <<asg[c].person_id, Len(faces) + 1, TRUE>>
                     /\ Len(faces') = Len(faces) + 1
                     /\ faces'[Len(faces')].person_id = asg[c].person_id
                     /\ faces'[Len(faces')].embedding = asg[c].embedding]_vars

\* A call has returned a new person for a vector whose nearest earlier
\* gallery member lies at exactly the threshold.
C25_Witness ==
    \E c \in Callers :
        /\ MintedNew(c)
        /\ asg[c].ret[2] > 1
        /\ \A i \in 1..(asg[c].ret[2] - 1) :
              ~Less(cosine_distance(asg[c].embedding, faces[i].embedding),
                    asg[c].threshold)
        /\ \E i \in 1..(asg[c].ret[2] - 1) :
              LET d == cosine_distance(asg[c].embedding, faces[i].embedding)
              IN  d[1] * asg[c].threshold[2] = asg[c].threshold[1] * d[2]

\* C26: once get_or_create_person(v, t) has returned a person it created,
\* a following call with the same vector and threshold returns that
\* person and that face with is_new = False and creates nothing.
C26_ReassignSame ==
    [][\A c1, c2 \in Callers :
          (/\ MintedNew(c1)
           /\ ScanDecides(c2)
           /\ asg[c2].embedding = asg[c1].embedding
           /\ asg[c2].threshold = asg[c1].threshold)
              => /\ asg'[c2].pc = "idle"
                 /\ asg'[c2].ret = <<asg[c1].ret[1], asg[c1].ret[2], FALSE>>
                 /\ faces' = faces /\ persons' = persons]_vars

\* C27: when some gallery embedding lies closer than the threshold, the
\* call returns a gallery member at the smallest distance, with its
\* person, and creates nothing.
C27_NearestWins ==
    [][\A c \in Callers :
          (/\ ScanDecides(c)
           /\ \E i \in DOMAIN faces :
                 Less(cosine_distance(asg[c].embedding, faces[i].embedding),
                      asg[c].threshold))
              => /\ asg'[c].pc = "idle"
                 /\ asg'[c].ret[3] = FALSE
                 /\ asg'[c].ret[2] \in Nearest(asg[c].embedding)
                 /\ asg'[c].ret[1] = faces[asg'[c].ret[2]].person_id
                 /\ faces' = faces /\ persons' = persons]_vars

\* A call has returned the second gallery member, which is the nearest,
\* while the first one lies under the threshold too, farther away.
C27_Witness ==
    \E c \in Callers :
        /\ asg[c].pc = "idle" /\ asg[c].ret[2] = 2 /\ ~asg[c].ret[3]
        /\ Len(faces) = 2
        /\ Less(cosine_distance(asg[c].embedding, faces[1].embedding),
                asg[c].threshold)
        /\ Less(cosine_distance(asg[c].embedding, faces[2].embedding),
                cosine_distance(asg[c].embedding, faces[1].embedding))
        /\ faces[1].person_id # faces[2].person_id

\* The written date of a text: the text without the words around it, the
\* positions of its separators and the three fields between them.
Core == IF text # <<>> /\ text[1] = "x" THEN SubSeq(text, 3, Len(text) - 2)
        ELSE text

SepAt == {i \in DOMAIN Core : Core[i] \in Separators}

Sep1 == CHOOSE i \in SepAt : \A j \in SepAt : i <= j

Sep2 == CHOOSE i \in SepAt : \A j \in SepAt : i >= j

FieldA == SubSeq(Core, 1, Sep1 - 1)

FieldB == SubSeq(Core, Sep1 + 1, Sep2 - 1)

FieldC == SubSeq(Core, Sep2 + 1, Len(Core))

\* The text is three fields of digits with two separators, and
\* _parse_date() has returned.
ThreeFields ==
    /\ parsed.state # "unset"
    /\ Cardinality(SepAt) = 2
    /\ \A i \in DOMAIN Core : i \in SepAt \/ Core[i] \in Digit

TheDate(y, m, d) == [state |-> "date", y |-> y, m |-> m, d |-> d]

\* C28: a text DD.MM.YY, DD/MM/YY or DD-MM-YY that names a real date is
\* parsed as day-month-year, the year being 2000 + YY for YY < 30 and
\* 1900 + YY otherwise.
C28_ShortYear ==
    (/\ ThreeFields /\ Core = text
     /\ Len(FieldA) = 2 /\ Len(FieldB) = 2 /\ Len(FieldC) = 2)
        => LET yy == ToInt(FieldC)
               y == IF yy < 30 THEN 2000 + yy ELSE 1900 + yy
           IN  IsDate(y, ToInt(FieldB), ToInt(FieldA))
                   => parsed = TheDate(y, ToInt(FieldB), ToInt(FieldA))

\* C29: a numeric date with a 4-digit year is read by the position of the
\* year: YYYY<sep>MM<sep>DD as year-month-day and DD<sep>MM<sep>YYYY as
\* day-month-year, for the separators . / -, with one or two digits for day
\* and month, alone or inside other text.
C29_LongYear ==
    ThreeFields
        => /\ (Len(FieldA) = 4
                /\ IsDate(ToInt(FieldA), ToInt(FieldB), ToInt(FieldC)))
                => parsed = TheDate(ToInt(FieldA), ToInt(FieldB), ToInt(FieldC))
           /\ (Len(FieldC) = 4
                /\ IsDate(ToInt(FieldC), ToInt(FieldB), ToInt(FieldA)))
                => parsed = TheDate(ToInt(FieldC), ToInt(FieldB), ToInt(FieldA))

\* "x 1.8.1995 x" has been parsed as 1 August 1995.
C29_Witness ==
    /\ text = <<"x", " ", "1", ".", "8", ".", "1", "9", "9", "5", " ", "x">>
    /\ parsed = TheDate(1995, 8, 1)

\* C30: every date _parse_date() returns is a real calendar date with
\* 1 <= d <= 31, 1 <= m <= 12 and 1900 <= y <= 2100; a text without a date
\* yields None, and so does a text whose date with a 4-digit year is not a
\* real date (day 32, month 13, 30 February), whichever of its two short
\* fields is read as the month.
C30_InvalidRejected ==
    /\ parsed.state = "date"
          => /\ IsDate(parsed.y, parsed.m, parsed.d)
             /\ 1900 <= parsed.y /\ parsed.y <= 2100
    /\ (parsed.state # "unset" /\ \A i \in DOMAIN text : text[i] \notin Digit)
          => parsed = NoDate
    /\ (ThreeFields /\ Len(FieldA) = 4
           /\ ~IsDate(ToInt(FieldA), ToInt(FieldB), ToInt(FieldC)))
          => parsed = NoDate
    /\ (ThreeFields /\ Len(FieldC) = 4
           /\ ~IsDate(ToInt(FieldC), ToInt(FieldB), ToInt(FieldA))
           /\ ~IsDate(ToInt(FieldC), ToInt(FieldA), ToInt(FieldB)))
          => parsed = NoDate

\* ---------------------------------------------------------------- C21
\* A step that removes a model, the OCR engine or the label-embedding cache.
IdleUnloaded ==
    \/ \E m \in ModelNames : models[m].loaded /\ ~models'[m].loaded
    \/ ocr_loaded /\ ~ocr_loaded'
    \/ label_cache /\ ~label_cache'

IdleLong ==
    /\ status = "idle"
    /\ last_activity # NULL
    /\ now - last_activity > ai_idle_unload_minutes

\* GET /api/v1/models reports loaded = [] and memory_used_mb = 0.
CacheEmpty ==
    /\ get_info_loaded(models) = {}
    /\ get_info_memory(models) = 0

\* A stage asks for a model that was constructed before and is unloaded.
Reloading(m) ==
    /\ call[WorkerThread].op = "load"
    /\ call[WorkerThread].pc # "idle"
    /\ call[WorkerThread].model_name = m
    /\ built[m] > 0
    /\ ~models[m].loaded

\* load() has returned the session of the resident entry.
Reloaded(m) ==
    /\ call[WorkerThread].op = "load"
    /\ call[WorkerThread].pc = "idle"
    /\ call[WorkerThread].model_name = m
    /\ models[m].loaded
    /\ call[WorkerThread].ret = models[m].session

RunCreated == \E t \in Tasks : pc[t] = "none" /\ pc'[t] = "scheduled"

\* C23: with the scan timer enabled, a tick passes its status test only
\* when the worker is idle and does nothing otherwise; a tick that then
\* counts pending items creates a run, and no run is created otherwise;
\* so a work item that is pending while the worker is idle is eventually
\* claimed.
C23_ScanStartsRun ==
    /\ [][scan_pc = "sleep" /\ scan_pc' = "count" => status = "idle"]_vars
    /\ [][scan_pc = "count" /\ scan_pc' = "sleep" /\ get_pending_count(queue) > 0
             => RunCreated]_vars
    /\ [][RunCreated => scan_pc = "count" /\ get_pending_count(queue) > 0]_vars
    /\ \A id \in Photos :
          (queue[id].status = "pending" /\ status = "idle")
              ~> (queue[id].status = "processing")

\* A run that only the scan timer can have created holds a claimed item.
C23_Witness ==
    /\ status = "processing"
    /\ scan_pc = "sleep"
    /\ \E t \in Tasks, id \in Photos :
          /\ row[t] = id
          /\ queue[id].status = "processing"
          /\ queue[id].attempts = 1

\* ---------------------------------------------------------------- C31
\* _parse_date() has returned the date for every date and format the
\* text is the writing of.
RoundTrip(formats) ==
    parsed.state # "unset"
        => \A i \in RoundInputs :
              (i[2] \in formats /\ text = format_date(i[1], i[2], i[3]))
                  => parsed = TheDate(i[1][1], i[1][2], i[1][3])

\* C31: for every date d and every format of DATE_PATTERNS, the text of d
\* written in that format is parsed as d.
C31_RoundTrip ==
    RoundTrip({DATE_PATTERNS[i].format : i \in DOMAIN DATE_PATTERNS})

\* ---------------------------------------------------------------- C32
\* C32: for a photo the worker processes the stages run in the order
\* faces, tags, OCR and photo update, queue complete: tag edges are written
\* only for a photo that has its face edges, ai_processed_at is set only
\* for a photo that has face and tag edges, and the queue row of a ready
\* photo becomes done only when ai_processed_at has been set before.
C32_StageOrder ==
    [][\A id \in Photos :
          /\ photo_tags'[id] # photo_tags[id] => photo_faces[id] > 0
          /\ (ai_results'[id].processed /\ ~ai_results[id].processed)
                => (photo_faces[id] > 0 /\ photo_tags[id] > 0)
          /\ (queue'[id].status = "done" /\ queue[id].status # "done"
                /\ photos[id].status = "ready")
                => ai_results[id].processed]_vars

\* The edges of a photo are visible while ai_processed_at is not set and
\* its queue row is still in processing.
C32_Witness ==
    \E id \in Photos :
        /\ photo_faces[id] > 0
        /\ photo_tags[id] > 0
        /\ ~ai_results[id].processed
        /\ queue[id].status = "processing"

\* C33: an exception that reaches run()'s loop-scope handler (raised by the
\* claim, by the photo lookup inside it, or by mark_queue_error() in the
\* per-item handler) sets the status to error; the next step of that
\* coroutine is the finally block, which sets the status to idle and ends
\* the run, and a start request made then is accepted and finds a free
\* task to run.
C33_LoopScopeEscape ==
    [][\A t \in Tasks :
          /\ (ClaimRaise(t) \/ PhotoQueryRaise(t) \/ MarkErrorRaise(t)) =>
                (status' = "error" /\ pc'[t] = "except")
          /\ (pc[t] = "except" /\ pc'[t] # "except") =>
                /\ pc'[t] = "none"
                /\ status' = "idle"
                /\ start_answer' = "started"
                /\ t \in FreeTasks']_vars

\* mark_queue_error() has raised for the claimed item: the status is error
\* and the finally block is next.
C33_Witness ==
    \E t \in Tasks :
        /\ pc[t] = "except" /\ status = "error"
        /\ row[t] # None /\ errors[t] = 1
        /\ queue[row[t]].status = "processing"

\* C34: the photo update never overwrites a taken_at that is not NULL.
\* taken_at becomes the OCR date exactly when it was NULL, the OCR stage
\* found a date and AI_OCR_UPDATE_TAKEN_AT is on; otherwise it keeps its
\* value.  ai_processed_at and ai_person_ids are written by every update.
C34_TakenAtKept ==
    [][\A t \in Tasks, o \in OcrOutcomes :
          UpdatePhoto(t, o) =>
              LET old == ai_results[row[t]]
                  new == ai_results'[row[t]]
              IN  /\ new.processed
                  /\ new.person_ids = "ids"
                  /\ old.taken_at # NULL => new.taken_at = old.taken_at
                  /\ new.taken_at =
                        IF old.taken_at = NULL /\ o = "date"
                                               /\ ai_ocr_update_taken_at
                        THEN 0 ELSE old.taken_at]_vars

\* A photo that came with its own taken_at was updated with an OCR date
\* while AI_OCR_UPDATE_TAKEN_AT is on, and still has its own taken_at.
C34_Witness ==
    \E id \in Photos :
        /\ ai_ocr_update_taken_at
        /\ ai_results[id].processed /\ ai_results[id].ocr_date
        /\ ai_results[id].person_ids = "ids"
        /\ ai_results[id].taken_at = MaxTime

\* C35: whenever no call of run() is alive (each has ended: by a normal
\* exit, by a stop, or by an exception raised anywhere in it, the
\* reset_stuck_processing() call at its start included), the worker status
\* is idle, so a start request or a scan tick can start a new run.
C35_EndedRunIdle ==
    (\A t \in Tasks : pc[t] = "none") => status = "idle"

\* C36: when the runs of a worker process that did not crash have ended, no
\* queue row is left in processing: every row a run claimed was moved to
\* done, pending or error, also when mark_queue_done() or
\* mark_queue_error() raised and when the photo lookup inside
\* get_next_pending_photo() failed after the claim.
C36_NoRowLeftBehind ==
    (\A t \in Tasks : pc[t] = "none") =>
        \A id \in Photos : queue[id].status # "processing"

\* C37: a queue row is held by at most one worker at a time: from the
\* commit of a worker's claim of a row to that worker's mark_queue_done()
\* or mark_queue_error() for it, no other worker has claimed the same row,
\* also when another worker's run start has executed
\* reset_stuck_processing() in between.
C37_SingleHolder ==
    LET Holds(t, id) == row[t] = id /\ pc[t] \notin {"claim", "claim_locked"}
    IN  \A t1, t2 \in Tasks, id \in Photos :
            (Holds(t1, id) /\ Holds(t2, id)) => t1 = t2

\* C38: for every item get_next_pending_photo() returned to the run loop,
\* exactly one of the run's counters photos_processed and errors was
\* incremented: whenever the run holds no item, photos_processed + errors
\* is the number of items it has claimed (the claims of rows of ready
\* photos; the run is the only one and every row started unclaimed).
C38_CountersPartition ==
    \A t \in Tasks :
        (row[t] = None /\ pc[t] \notin {"none", "scheduled", "reset"}) =>
            photos_processed[t] + errors[t] =
                Cardinality({c \in Photos \X (1..ai_max_retries) :
                                /\ photos[c[1]].status = "ready"
                                /\ c[2] <= queue[c[1]].attempts})

\* C39: re-processing is idempotent on the persons and faces tables: all
\* attempts of an item present the same face, so however often the item is
\* retried, and wherever an attempt failed, the face has created at most
\* one person and one faces row (the tables were empty before).
C39_RetryIdempotent ==
    Cardinality(persons) <= 1 /\ Len(faces) <= 1

\* C40: current_photo is set only between the claim of an item and the end
\* of its processing: while the status is idle current_photo is None, and
\* while it is not None it is the item a run loop of this process holds,
\* whose queue row is in processing.
C40_CurrentPhoto ==
    /\ status = "idle" => current_photo = None
    /\ current_photo # None =>
          /\ \E t \in Tasks : row[t] = current_photo
                                /\ pc[t] \notin {"claim", "claim_locked"}
          /\ queue[current_photo].status = "processing"

====
